---- MODULE Spec2Model ----
(***************************************************************************)
(* Model of the SME document generator front end: the placeholder          *)
(* extractor, the generate view, the template-management view, the         *)
(* history view, the settings view and the apiService layer they share.    *)
(*                                                                         *)
(* Each view is one record-valued variable whose fields are the view's     *)
(* refs; `net` holds the HTTP requests in flight together with the         *)
(* continuation that awaits each of them.                                  *)
(***************************************************************************)
EXTENDS Integers, Sequences, FiniteSets, TLC

VARIABLES
  ext,   \* the extractor on its own: a body and the list extracted from it
  gen,   \* the refs of GenerateDocView
  hist,  \* the refs of DocHistoryView, and whether its modal is open
  sett,  \* the refs of ModelSettingsView
  admin, \* the refs of TemplateManagementView, one set per open session
  server,\* the backend's templates and history records
  api,   \* one apiService function called on its own
  net    \* the HTTP requests in flight, oldest first, each with its awaiting handler

vars == <<ext, gen, hist, sett, admin, server, api, net>>

\* What a step of one view leaves alone.
GenFrame == <<ext, hist, sett, admin, server, api>>
HistFrame == <<ext, gen, sett, admin, server, api>>
SettFrame == <<ext, gen, hist, admin, server, api>>
AdminFrame == <<ext, gen, hist, sett, api>>
ApiFrame == <<ext, gen, hist, sett, admin, server>>

\* JavaScript's null, for a ref that holds an object or null.
Null == [null |-> TRUE]

\* null and undefined where a string is expected (a template body).
NullBody == <<"null">>
UndefinedBody == <<"undefined">>

\* The values of a string for which !content is true.
Falsy == {NullBody, UndefinedBody, <<>>}

(***************************************************************************)
(* Bounds of the model.                                                    *)
(***************************************************************************)
\* Longest template body the extractor is applied to.
MaxLen == 9

\* The characters of a template body: the two braces and name characters
\* that differ in case ("a", "A").
Chars == {"{", "}", "a", "A"}

\* Template bodies of n characters: every string over Chars of that length.
Bodies(n) == [1..n -> Chars]

(***************************************************************************)
(* Placeholder extraction: /{([^}]+)}/g, match.slice(1, -1), new Set.      *)
(***************************************************************************)
\* Index of the first "}" at or after position i of s, 0 when there is none.
RECURSIVE FirstClose(_, _)
FirstClose(s, i) ==
  IF i > Len(s) THEN 0
  ELSE IF s[i] = "}" THEN i
  ELSE FirstClose(s, i + 1)

\* MatchEnd, had an opening brace with no "}" after it matched up to the end
\* of the text.
MatchEndOrEndOfText(s, i) ==
  IF s[i] # "{" THEN 0
  ELSE LET j == FirstClose(s, i + 1)
       IN IF j > i + 1 THEN j
          ELSE IF j = 0 /\ Len(s) > i THEN Len(s) ELSE 0

\* End of the match of /{([^}]+)}/ that starts at position i, 0 when the
\* regular expression does not match there: "{", then at least one character
\* that is not "}", then "}".
MatchEnd(s, i) ==
  IF s[i] # "{" THEN 0
  ELSE LET j == FirstClose(s, i + 1)
       IN IF j > i + 1 THEN j ELSE 0

\* The matches of the global regular expression from position i on, left to
\* right and non-overlapping.
RECURSIVE ScanFrom(_, _)
ScanFrom(s, i) ==
  IF i > Len(s) THEN <<>>
  ELSE LET j == MatchEnd(s, i)
       IN IF j > 0 THEN <<SubSeq(s, i, j)>> \o ScanFrom(s, j + 1)
          ELSE ScanFrom(s, i + 1)

\* content.match(regex): the list of matches, null when there is none.
RegexMatch(content) ==
  LET ms == ScanFrom(content, 1)
  IN IF ms = <<>> THEN NullBody ELSE ms

\* match.slice(1, -1): the match without its first and last character.
Slice1(m) == SubSeq(m, 2, Len(m) - 1)

\* matches.map((match) => match.slice(1, -1))
MapSlice(ms) == [k \in 1..Len(ms) |-> Slice1(ms[k])]

\* Mutant of SetSpread: a later occurrence replaces the earlier one.
RECURSIVE SetSpreadKeepLast(_)
SetSpreadKeepLast(xs) ==
  IF xs = <<>> THEN <<>>
  ELSE LET rest == SetSpreadKeepLast(Tail(xs))
       IN IF \E k \in 1..Len(rest) : rest[k] = Head(xs)
          THEN rest ELSE <<Head(xs)>> \o rest

\* [...new Set(xs)]: a Set keeps each value once, in insertion order.
RECURSIVE SetSpread(_)
SetSpread(xs) ==
  IF xs = <<>> THEN <<>>
  ELSE LET init == SetSpread(SubSeq(xs, 1, Len(xs) - 1))
           x == xs[Len(xs)]
       IN IF \E k \in 1..Len(init) : init[k] = x
          THEN init ELSE Append(init, x)

\* extractPlaceholders, had it taken a body without a match for one name.
extractPlaceholdersWholeBody(content) ==
  IF content \in Falsy THEN <<>>
  ELSE LET matches == RegexMatch(content)
       IN IF matches = NullBody THEN <<content>>
          ELSE SetSpread(MapSlice(matches))

\* extractPlaceholders(content) of the template-management view.
extractPlaceholders(content) ==
  IF content \in Falsy THEN <<>>
  ELSE LET matches == RegexMatch(content)
       IN IF matches = NullBody THEN <<>>
          ELSE SetSpread(MapSlice(matches))

\* templatePlaceholders, had it kept every occurrence of a name.
templatePlaceholdersKeepsRepeats(selectedTemplate) ==
  IF selectedTemplate = Null
     \/ selectedTemplate.template_content \in Falsy
  THEN <<>>
  ELSE LET matches == RegexMatch(selectedTemplate.template_content)
       IN IF matches = NullBody THEN <<>>
          ELSE MapSlice(matches)

\* templatePlaceholders of the generate view, as a function of the selected
\* template.
templatePlaceholders(selectedTemplate) ==
  IF selectedTemplate = Null
     \/ selectedTemplate.template_content \in Falsy
  THEN <<>>
  ELSE LET matches == RegexMatch(selectedTemplate.template_content)
       IN IF matches = NullBody THEN <<>>
          ELSE SetSpread(MapSlice(matches))

\* The extractor before a body is handed to it.
ExtIdle == [content |-> <<>>, by |-> "none", result |-> <<>>]

(***************************************************************************)
(* Values the views work with.                                             *)
(***************************************************************************)
\* undefined where a string is expected (a missing property).
Undefined == "undefined"

\* The templates the backend may hold.  "t1" and "t2" share the placeholder
\* a, "t3" has no placeholder, "t4" is inactive.
TplQuote ==
  [id |-> "t1", name |-> "Quote Basic", document_type |-> "Quote",
   template_content |-> <<"{", "a", "}", "{", "A", "}">>, is_active |-> TRUE]
TplInvoice ==
  [id |-> "t2", name |-> "Invoice Std", document_type |-> "Invoice",
   template_content |-> <<"{", "a", "}">>, is_active |-> TRUE]
TplLPO ==
  [id |-> "t3", name |-> "LPO V1", document_type |-> "LPO",
   template_content |-> <<"a">>, is_active |-> TRUE]
TplContract ==
  [id |-> "t4", name |-> "Contract", document_type |-> "Contract",
   template_content |-> <<"{", "A", "}">>, is_active |-> FALSE]

\* The lists GET /templates may answer with: every selection of the
\* templates above, in the order of their ids.
TemplateLists ==
  LET all == <<TplQuote, TplInvoice, TplLPO, TplContract>>
  IN {SelectSeq(all, LAMBDA t : t.id \in S) : S \in SUBSET {"t1", "t2", "t3", "t4"}}

\* What the user may type into a form field.
FieldValues == {"", "x", "y"}

\* The output formats offered by the generate view.
DocFormats == {"pdf", "docx"}

\* The failures an HTTP request may end with: the backend's detail, when the
\* response carries one, and the transport's message.
NoDetail == "null"
ApiErrors ==
  {[detail |-> NoDetail, message |-> "Network Error"],
   [detail |-> "Template not found", message |-> "Request failed with status code 404"]}

\* The answers of POST /generate.
GenerateResults ==
  [history_id : {"null", "h1"},
   generated_content : {"", "Generated text"},
   document_format : DocFormats]

(***************************************************************************)
(* apiService: error handling.                                             *)
(***************************************************************************)
\* handleApiError, had it passed on the transport message only.
handleApiErrorTransportOnly(error) == error.message

\* handleApiError(error): the message of the Error it throws.
handleApiError(error) ==
  IF error.detail # NoDetail THEN error.detail
  ELSE IF error.message # "" THEN error.message
  ELSE "An unexpected error occurred."

(***************************************************************************)
(* Plain objects used as maps: the entries in insertion order.             *)
(***************************************************************************)
\* obj[key], undefined when the object has no such key.
ObjGet(obj, key) ==
  IF \E k \in 1..Len(obj) : obj[k].key = key
  THEN LET k == CHOOSE k \in 1..Len(obj) : obj[k].key = key IN obj[k].value
  ELSE Undefined

\* obj[key] = value: an existing key keeps its place, a new one goes last.
ObjSet(obj, key, value) ==
  IF \E k \in 1..Len(obj) : obj[k].key = key
  THEN [k \in 1..Len(obj) |->
          IF obj[k].key = key THEN [key |-> key, value |-> value] ELSE obj[k]]
  ELSE Append(obj, [key |-> key, value |-> value])

\* JSON.stringify(obj) for an object of strings: the text lists the entries
\* in insertion order.
JSONStringify(obj) == [json |-> obj]

\* The elements of a list, as a set.
Range(xs) == {xs[k] : k \in 1..Len(xs)}

\* xs without its i-th element.
RemoveAt(xs, i) == SubSeq(xs, 1, i - 1) \o SubSeq(xs, i + 1, Len(xs))

\* xs.find((x) => x.id === id), null when no element has that id.
FindById(xs, id) ==
  IF \E k \in 1..Len(xs) : xs[k].id = id
  THEN xs[CHOOSE k \in 1..Len(xs) :
            xs[k].id = id /\ \A m \in 1..(k - 1) : xs[m].id # id]
  ELSE Null

(***************************************************************************)
(* The refs of the other views as their scripts set them up.               *)
(***************************************************************************)
\* null where a string is expected (an error text).
NullStr == "null"

\* DocHistoryView before it is mounted.  modalShown is the state of the
\* Bootstrap modal #historyDetailModal.
HistSetup ==
  [mounted |-> FALSE,
   historyRecords |-> <<>>,
   templates |-> <<>>,
   loadingHistory |-> TRUE,
   historyError |-> NullStr,
   filters |-> [docType |-> "", status |-> "", date |-> ""],
   selectedRecordDetails |-> Null,
   loadingDetails |-> FALSE,
   detailsError |-> NullStr,
   modalShown |-> FALSE,
   requestedId |-> NullStr]

\* ModelSettingsView before it is mounted.  fetched remembers the rows of
\* the latest successful GET /settings/llm.
SettSetup ==
  [mounted |-> FALSE,
   settings |-> <<>>,
   fetched |-> <<>>,
   testResult |-> Null,
   loadingSettings |-> TRUE,
   savingSettings |-> FALSE,
   testingConnection |-> FALSE,
   saveMessage |-> Null]

\* null where a text is expected.
NullText == <<"null">>

\* The sessions in which the template-management view is open.
Sessions == {"s1", "s2"}

\* The create form as the script sets it up and resets it.
NewTemplateBlank ==
  [name |-> "", document_type |-> "", template_content |-> <<>>, is_active |-> TRUE]

\* The JSON text "{}".
EmptyJson == <<"{", "}">>

\* TemplateManagementView before it is mounted.  editSource remembers the
\* list entry editTemplate copied; writes counts the create, update and
\* delete requests the session has sent.
AdminSetup ==
  [s \in Sessions |->
     [mounted |-> FALSE,
      templates |-> <<>>,
      loadingTemplates |-> TRUE,
      editingTemplate |-> Null,
      editSource |-> Null,
      savingTemplate |-> FALSE,
      testingTemplate |-> Null,
      testInputDataJson |-> EmptyJson,
      testingPrompt |-> FALSE,
      testResult |-> Null,
      testError |-> NullText,
      message |-> Null,
      newTemplate |-> NewTemplateBlank,
      creatingTemplate |-> FALSE,
      writes |-> 0]]

\* The backend's rows before any session acts.
ServerSetup ==
  [templates |-> <<TplQuote, TplInvoice>>,
   history |-> <<[id |-> "h1", template_id |-> "t1", document_format |-> "pdf",
                  generated_content |-> "Generated text"],
                 [id |-> "h3", template_id |-> "t2", document_format |-> "pdf",
                  generated_content |-> ""]>>,
   settings |-> <<[key |-> "llm_model_name", value |-> "gemini-pro"],
                  [key |-> "enable_history", value |-> "true"],
                  [key |-> "google_api_key", value |-> "real-key"],
                  [key |-> "cors_allowed_origins", value |-> ""]>>,
   created |-> 0]

\* No apiService function has been called.
ApiIdle ==
  [fn |-> "none", phase |-> "idle", calls |-> 0, requests |-> 0,
   returned |-> FALSE, thrown |-> NullStr, error |-> [detail |-> NoDetail, message |-> ""]]

(***************************************************************************)
(* GenerateDocView.                                                        *)
(***************************************************************************)
\* The refs as the script sets them up, before the component is mounted.
GenSetup ==
  [mounted |-> FALSE,
   templates |-> <<>>,
   loadingTemplates |-> TRUE,
   selectedTemplateId |-> "",
   selectedTemplate |-> Null,
   formData |-> <<>>,
   loading |-> FALSE,
   generatedDoc |-> Null,
   outputFormat |-> "pdf",
   message |-> Null,
   saved |-> Null]

\* activeTemplates, had it offered every template.
activeTemplatesUnfiltered(g) == g.templates

\* activeTemplates
activeTemplates(g) == SelectSeq(g.templates, LAMBDA tpl : tpl.is_active)

\* Mutant of isFormDataComplete: an empty string counts as a value.
isFormDataCompleteAcceptsEmpty(g) ==
  IF g.selectedTemplate = Null THEN FALSE
  ELSE \A placeholder \in Range(templatePlaceholders(g.selectedTemplate)) :
         ObjGet(g.formData, placeholder) # Undefined

\* isFormDataComplete
isFormDataComplete(g) ==
  IF g.selectedTemplate = Null THEN FALSE
  ELSE \A placeholder \in Range(templatePlaceholders(g.selectedTemplate)) :
         /\ ObjGet(g.formData, placeholder) # Undefined
         /\ ObjGet(g.formData, placeholder) # ""

\* The template shows the form, and with it the Generate button, when the
\* templates are loaded and a template is selected.
GenFormShown(g) == ~g.loadingTemplates /\ g.selectedTemplate # Null

\* The Generate button is shown and not disabled.
GenerateButtonEnabled(g) ==
  GenFormShown(g) /\ ~(g.loading \/ ~isFormDataComplete(g))

\* Mutant of WatchSelectedTemplateId: the form values are kept.
WatchSelectedTemplateIdKeepsForm(g, newId) ==
  [g EXCEPT !.selectedTemplate = FindById(g.templates, newId),
            !.generatedDoc = Null,
            !.message = Null]

\* watch(selectedTemplateId, (newId) => ...)
WatchSelectedTemplateId(g, newId) ==
  [g EXCEPT !.selectedTemplate = FindById(g.templates, newId),
            !.formData = <<>>,
            !.generatedDoc = Null,
            !.message = Null]

\* The request generateDocument hands to apiService.generateDocument.
generationRequestData(g) ==
  [template_id |-> g.selectedTemplate.id,
   input_data |-> JSONStringify(g.formData),
   document_format |-> g.outputFormat]

\* A request of the generate view in flight: the apiService function, what
\* it sends and the handler that awaits it.
GenRequest(fn, data) == [view |-> "generate", fn |-> fn, data |-> data]

\* The generate requests in flight.
GenerateInFlight == {k \in 1..Len(net) : net[k].fn = "generateDocument"}

\* onMounted: fetchTemplates up to its await.
GenOnMounted ==
  /\ ~gen.mounted
  /\ gen' = [gen EXCEPT !.mounted = TRUE, !.loadingTemplates = TRUE]
  /\ net' = Append(net, [view |-> "generate", fn |-> "getTemplates"])
  /\ UNCHANGED GenFrame

\* fetchTemplates after its await: the list arrived.
GenFetchTemplatesResolve ==
  \E i \in 1..Len(net) : \E list \in TemplateLists :
    /\ net[i].view = "generate" /\ net[i].fn = "getTemplates"
    /\ gen' = [gen EXCEPT !.templates = list, !.loadingTemplates = FALSE]
    /\ net' = RemoveAt(net, i)
    /\ UNCHANGED GenFrame

\* fetchTemplates after its await: the request failed.
GenFetchTemplatesReject ==
  \E i \in 1..Len(net) : \E error \in ApiErrors :
    /\ net[i].view = "generate" /\ net[i].fn = "getTemplates"
    /\ gen' = [gen EXCEPT
         !.message = [type |-> "danger",
                      text |-> <<"Failed to load templates: ", handleApiError(error)>>],
         !.loadingTemplates = FALSE]
    /\ net' = RemoveAt(net, i)
    /\ UNCHANGED GenFrame

\* The user picks an option of the template select: "" or an active
\* template.  The watcher runs when the value changed.
GenSelectTemplate ==
  \E id \in {""} \cup {tpl.id : tpl \in Range(activeTemplates(gen))} :
    /\ ~gen.loadingTemplates
    /\ id # gen.selectedTemplateId
    /\ gen' = WatchSelectedTemplateId([gen EXCEPT !.selectedTemplateId = id], id)
    /\ UNCHANGED <<GenFrame, net>>

\* The user types into the field of a placeholder (v-model on formData).
GenSetField ==
  \E placeholder \in Range(templatePlaceholders(gen.selectedTemplate)) :
    \E v \in FieldValues :
      /\ GenFormShown(gen)
      /\ ObjGet(gen.formData, placeholder) # v
      /\ gen' = [gen EXCEPT !.formData = ObjSet(gen.formData, placeholder, v)]
      /\ UNCHANGED <<GenFrame, net>>

\* The user picks an output format.
GenSetOutputFormat ==
  \E f \in DocFormats :
    /\ GenFormShown(gen)
    /\ f # gen.outputFormat
    /\ gen' = [gen EXCEPT !.outputFormat = f]
    /\ UNCHANGED <<GenFrame, net>>

\* Mutant of generateDocument: only the selection is checked.
generateDocumentUnchecked ==
  IF gen.selectedTemplate = Null
  THEN /\ gen' = [gen EXCEPT
            !.message = [type |-> "danger",
                         text |-> <<"Please select a template and fill all required fields.", "">>]]
       /\ UNCHANGED <<GenFrame, net>>
  ELSE /\ gen' = [gen EXCEPT !.loading = TRUE, !.generatedDoc = Null, !.message = Null]
       /\ net' = Append(net, GenRequest("generateDocument", generationRequestData(gen)))
       /\ UNCHANGED GenFrame

\* generateDocument up to its await (or its early return).
generateDocument ==
  IF gen.selectedTemplate = Null \/ ~isFormDataComplete(gen)
  THEN /\ gen' = [gen EXCEPT
            !.message = [type |-> "danger",
                         text |-> <<"Please select a template and fill all required fields.", "">>]]
       /\ UNCHANGED <<GenFrame, net>>
  ELSE /\ gen' = [gen EXCEPT !.loading = TRUE, !.generatedDoc = Null, !.message = Null]
       /\ net' = Append(net, GenRequest("generateDocument", generationRequestData(gen)))
       /\ UNCHANGED GenFrame

\* The user clicks the Generate button.
GenClickGenerate ==
  /\ GenerateButtonEnabled(gen)
  /\ generateDocument

\* generateDocument called while nothing is being generated, whatever the
\* form holds (the handler on its own, without the button's disabled state).
GenCallGenerateDocument ==
  /\ gen.mounted /\ ~gen.loading
  /\ ~GenerateButtonEnabled(gen)
  /\ generateDocument

\* Mutant of GenerateResolved: the form is cleared after a success.
GenerateResolvedClearsForm(g, result) ==
  [g EXCEPT !.generatedDoc = result,
            !.formData = <<>>,
            !.message = [type |-> "success", text |-> <<"Document generated successfully!", "">>],
            !.loading = FALSE]

\* generateDocument after its await: the try block's tail and finally.
GenerateResolved(g, result) ==
  [g EXCEPT !.generatedDoc = result,
            !.message = [type |-> "success", text |-> <<"Document generated successfully!", "">>],
            !.loading = FALSE]

\* generateDocument after its await: catch and finally.
GenerateRejected(g, error) ==
  [g EXCEPT !.message = [type |-> "danger",
                         text |-> <<"Document generation failed: ", handleApiError(error)>>],
            !.loading = FALSE]

\* POST /generate answered.
GenGenerateResolve ==
  \E i \in GenerateInFlight : \E result \in GenerateResults :
    /\ gen' = GenerateResolved(gen, result)
    /\ net' = RemoveAt(net, i)
    /\ UNCHANGED GenFrame

\* POST /generate failed.
GenGenerateReject ==
  \E i \in GenerateInFlight : \E error \in ApiErrors :
    /\ gen' = GenerateRejected(gen, error)
    /\ net' = RemoveAt(net, i)
    /\ UNCHANGED GenFrame

\* downloadDocument, had it not looked at the content before saving.
downloadDocumentUnchecked(g) ==
  IF g.selectedTemplate = Null THEN [g EXCEPT !.saved = Null]
  ELSE LET name == IF g.selectedTemplate.name = "" THEN "document"
                   ELSE g.selectedTemplate.name
           format == IF g.generatedDoc.document_format = "" THEN "txt"
                     ELSE g.generatedDoc.document_format
       IN [g EXCEPT !.saved = [content |-> g.generatedDoc.generated_content,
                               type |-> "text/plain",
                               filename |-> <<name, ".", format>>],
                    !.message = [type |-> "success",
                                 text |-> <<"Downloading document as ", name, ".",
                                            format, ".">>]]

\* downloadDocument.  saved is what this call handed to saveAs, Null when it
\* handed over nothing.  With a document but no selected template, reading
\* selectedTemplate.value.name throws before saveAs is reached.
downloadDocument(g) ==
  IF g.generatedDoc = Null \/ g.generatedDoc.generated_content = ""
  THEN [g EXCEPT !.saved = Null,
                 !.message = [type |-> "danger",
                              text |-> <<"No document content to download.", "">>]]
  ELSE IF g.selectedTemplate = Null THEN [g EXCEPT !.saved = Null]
  ELSE LET name == IF g.selectedTemplate.name = "" THEN "document"
                   ELSE g.selectedTemplate.name
           format == IF g.generatedDoc.document_format = "" THEN "txt"
                     ELSE g.generatedDoc.document_format
       IN [g EXCEPT !.saved = [content |-> g.generatedDoc.generated_content,
                               type |-> "text/plain",
                               filename |-> <<name, ".", format>>],
                    !.message = [type |-> "success",
                                 text |-> <<"Downloading document as ", name, ".",
                                            format, ".">>]]

\* The user clicks Download in the preview card, which is rendered while
\* there is a generated document.
GenDownloadDocument ==
  /\ gen.generatedDoc # Null
  /\ gen' = downloadDocument(gen)
  /\ UNCHANGED <<GenFrame, net>>

Init ==
  /\ ext = ExtIdle
  /\ gen = GenSetup
  /\ hist = HistSetup
  /\ sett = SettSetup
  /\ admin = AdminSetup
  /\ server = ServerSetup
  /\ api = ApiIdle
  /\ net = <<>>

GenNext ==
  \/ GenOnMounted
  \/ GenFetchTemplatesResolve
  \/ GenFetchTemplatesReject
  \/ GenSelectTemplate
  \/ GenSetField
  \/ GenSetOutputFormat
  \/ GenClickGenerate
  \/ GenCallGenerateDocument
  \/ GenGenerateResolve
  \/ GenGenerateReject
  \/ GenDownloadDocument

SpecGen == Init /\ [][GenNext]_vars

(***************************************************************************)
(* DocHistoryView.                                                         *)
(***************************************************************************)
\* Most details requests the model lets the user have in flight at once.
MaxDetailsInFlight == 2

\* The history records the backend may hold.  "h2" refers to a template
\* that no longer exists.
HistQuote ==
  [id |-> "h1", template_id |-> "t1", document_format |-> "pdf",
   generated_content |-> "Generated text"]
HistOrphan ==
  [id |-> "h2", template_id |-> "t9", document_format |-> "docx",
   generated_content |-> "Generated text"]
HistInvoice ==
  [id |-> "h3", template_id |-> "t2", document_format |-> "pdf",
   generated_content |-> ""]

\* The lists GET /history/docs may answer with.
HistoryLists ==
  LET all == <<HistQuote, HistOrphan, HistInvoice>>
  IN {SelectSeq(all, LAMBDA r : r.id \in S) : S \in SUBSET {"h1", "h2", "h3"}}

\* The record GET /history/docs/{id} answers with.
HistoryItem(historyId) ==
  CHOOSE r \in {HistQuote, HistOrphan, HistInvoice} : r.id = historyId

\* What reading a property of null or undefined throws.
TypeError == "TypeError"

\* obj.field for an object that may be null.
Prop(obj, field) == IF obj = Null THEN TypeError ELSE obj[field]

\* a || b for strings.
OrElse(a, b) ==
  IF a = TypeError THEN TypeError
  ELSE IF a \in {NullStr, Undefined, ""} THEN b
  ELSE a

\* Mutant of getTemplateName: the lookup's result is used unguarded.
getTemplateNameUnguarded(h, templateId) ==
  Prop(FindById(h.templates, templateId), "name")

\* getTemplateName(templateId)
getTemplateName(h, templateId) ==
  LET template == FindById(h.templates, templateId)
  IN IF template # Null THEN Prop(template, "name") ELSE NullStr

\* getTemplateDocType(templateId)
getTemplateDocType(h, templateId) ==
  LET template == FindById(h.templates, templateId)
  IN IF template # Null THEN Prop(template, "document_type") ELSE NullStr

\* The document type filteredHistory and uniqueDocTypes give a record.
recordDocType(h, record) ==
  LET template == FindById(h.templates, record.template_id)
  IN IF template # Null THEN Prop(template, "document_type") ELSE "Unknown"

\* uniqueDocTypes
uniqueDocTypes(h) ==
  LET types == [k \in 1..Len(h.historyRecords) |-> recordDocType(h, h.historyRecords[k])]
  IN SetSpread(SelectSeq(types, LAMBDA type : type # "Unknown"))

\* filteredHistory, had it dropped the records whose template is unknown.
filteredHistoryHidesUnresolved(h) ==
  SelectSeq(h.historyRecords,
         LAMBDA record : recordDocType(h, record) # "Unknown"
                         /\ (h.filters.docType = ""
                             \/ recordDocType(h, record) = h.filters.docType))

\* filteredHistory
filteredHistory(h) ==
  SelectSeq(h.historyRecords,
         LAMBDA record : h.filters.docType = ""
                         \/ recordDocType(h, record) = h.filters.docType)

\* The table of records is shown: neither the spinner nor the error.
HistTableShown(h) == ~h.loadingHistory /\ h.historyError = NullStr

\* The cells "Template Name" and "Type" of a row of the table.
RowTemplateName(h, record) == OrElse(getTemplateName(h, record.template_id), "Unknown Template")
RowDocType(h, record) == OrElse(getTemplateDocType(h, record.template_id), "N/A")

\* The "Template:" line of the modal body.
ModalTemplateName(h) ==
  OrElse(getTemplateName(h, h.selectedRecordDetails.template_id), "Unknown")
ModalDocType(h) ==
  OrElse(getTemplateDocType(h, h.selectedRecordDetails.template_id), "N/A")

\* What the modal shows while it is open.
ModalBody(h) ==
  IF h.selectedRecordDetails # Null THEN "details"
  ELSE IF h.loadingDetails THEN "spinner"
  ELSE IF h.detailsError # NullStr THEN "error"
  ELSE "empty"

\* onMounted: fetchHistory up to its await.
HistOnMounted ==
  /\ ~hist.mounted
  /\ hist' = [hist EXCEPT !.mounted = TRUE, !.loadingHistory = TRUE,
                          !.historyError = NullStr]
  /\ net' = Append(net, [view |-> "history", fn |-> "getHistory"])
  /\ UNCHANGED HistFrame

\* fetchHistory after its await, then onMounted goes on to fetchTemplates.
HistFetchHistoryResolve ==
  \E i \in 1..Len(net) : \E list \in HistoryLists :
    /\ net[i].view = "history" /\ net[i].fn = "getHistory"
    /\ hist' = [hist EXCEPT !.historyRecords = list, !.loadingHistory = FALSE]
    /\ net' = Append(RemoveAt(net, i), [view |-> "history", fn |-> "getTemplates"])
    /\ UNCHANGED HistFrame

\* fetchHistory failed, then onMounted goes on to fetchTemplates.
HistFetchHistoryReject ==
  \E i \in 1..Len(net) : \E error \in ApiErrors :
    /\ net[i].view = "history" /\ net[i].fn = "getHistory"
    /\ hist' = [hist EXCEPT !.historyError = handleApiError(error),
                            !.loadingHistory = FALSE]
    /\ net' = Append(RemoveAt(net, i), [view |-> "history", fn |-> "getTemplates"])
    /\ UNCHANGED HistFrame

\* fetchTemplates after its await.
HistFetchTemplatesResolve ==
  \E i \in 1..Len(net) : \E list \in TemplateLists :
    /\ net[i].view = "history" /\ net[i].fn = "getTemplates"
    /\ hist' = [hist EXCEPT !.templates = list]
    /\ net' = RemoveAt(net, i)
    /\ UNCHANGED HistFrame

\* fetchTemplates failed: the error is logged to the console only.
HistFetchTemplatesReject ==
  \E i \in 1..Len(net) :
    /\ net[i].view = "history" /\ net[i].fn = "getTemplates"
    /\ net' = RemoveAt(net, i)
    /\ UNCHANGED <<hist, HistFrame>>

\* The user picks a document type in the filter select.
HistSetFilter ==
  \E type \in {""} \cup Range(uniqueDocTypes(hist)) :
    /\ hist.mounted
    /\ type # hist.filters.docType
    /\ hist' = [hist EXCEPT !.filters.docType = type]
    /\ UNCHANGED <<HistFrame, net>>

\* resetFilters
HistResetFilters ==
  /\ hist.mounted
  /\ hist.filters.docType # ""
  /\ hist' = [hist EXCEPT !.filters = [docType |-> "", status |-> "", date |-> ""]]
  /\ UNCHANGED <<HistFrame, net>>

\* The details requests in flight.
DetailsInFlight == {k \in 1..Len(net) : net[k].fn = "getHistoryItem"}

\* viewDetails(historyId) up to its await: the user clicks View Details in
\* a row of the table (the open modal covers the table).
HistViewDetails ==
  \E record \in Range(filteredHistory(hist)) :
    /\ HistTableShown(hist)
    /\ ~hist.modalShown
    /\ Cardinality(DetailsInFlight) < MaxDetailsInFlight
    /\ hist' = [hist EXCEPT !.selectedRecordDetails = Null,
                            !.loadingDetails = TRUE,
                            !.detailsError = NullStr,
                            !.requestedId = record.id]
    /\ net' = Append(net, [view |-> "history", fn |-> "getHistoryItem",
                           historyId |-> record.id])
    /\ UNCHANGED HistFrame

\* viewDetails after its await: the record arrived and the modal is shown.
HistViewDetailsResolve ==
  \E i \in DetailsInFlight :
    /\ hist' = [hist EXCEPT !.selectedRecordDetails = HistoryItem(net[i].historyId),
                            !.modalShown = TRUE,
                            !.loadingDetails = FALSE]
    /\ net' = RemoveAt(net, i)
    /\ UNCHANGED HistFrame

\* viewDetails after its await: the request failed; the modal is not shown.
HistViewDetailsReject ==
  \E i \in DetailsInFlight : \E error \in ApiErrors :
    /\ hist' = [hist EXCEPT !.detailsError = handleApiError(error),
                            !.loadingDetails = FALSE]
    /\ net' = RemoveAt(net, i)
    /\ UNCHANGED HistFrame

\* The user closes the modal (data-bs-dismiss).
HistCloseModal ==
  /\ hist.modalShown
  /\ hist' = [hist EXCEPT !.modalShown = FALSE]
  /\ UNCHANGED <<HistFrame, net>>

HistNext ==
  \/ HistOnMounted
  \/ HistFetchHistoryResolve
  \/ HistFetchHistoryReject
  \/ HistFetchTemplatesResolve
  \/ HistFetchTemplatesReject
  \/ HistSetFilter
  \/ HistResetFilters
  \/ HistViewDetails
  \/ HistViewDetailsResolve
  \/ HistViewDetailsReject
  \/ HistCloseModal

SpecHist == Init /\ [][HistNext]_vars

(***************************************************************************)
(* ModelSettingsView.                                                      *)
(***************************************************************************)
\* A row of GET /settings/llm.
Row(key, value, description) ==
  [config_key |-> key, config_value |-> value, description |-> description]

\* The lists GET /settings/llm may answer with.
SettingsResponses ==
  {<<Row("llm_model_name", "gemini-pro", "Model name"),
     Row("enable_history", "true", "Enable history"),
     Row("google_api_key", "****", "API key"),
     Row("cors_allowed_origins", "", "CORS origins")>>,
   <<Row("llm_model_name", "gemini-flash", "Model name"),
     Row("enable_history", "false", "Enable history"),
     Row("google_api_key", "****", "API key"),
     Row("cors_allowed_origins", "", "CORS origins")>>,
   <<Row("enable_history", "true", "Enable history")>>}

\* getLLMSettings: response.data.reduce(...) makes an object that maps each
\* config_key to its config_value.
RECURSIVE settingsObject(_)
settingsObject(data) ==
  IF data = <<>> THEN <<>>
  ELSE LET acc == settingsObject(SubSeq(data, 1, Len(data) - 1))
           setting == data[Len(data)]
       IN ObjSet(acc, setting.config_key, setting.config_value)

\* value.config_value, had the view held records whose config_value is the
\* fetched string.
StrPropOfRecord(value, field) == value

\* value.field for a string value: a string has no such property.
StrProp(value, field) == Undefined

\* The store after PUT /settings/llm: each key sent takes the value sent,
\* the other keys keep theirs.
RECURSIVE ServerUpdateSettings(_, _)
ServerUpdateSettings(settingsData, n) ==
  IF n = 0 THEN server.settings
  ELSE ObjSet(ServerUpdateSettings(settingsData, n - 1),
              settingsData[n].key, settingsData[n].value)

\* settingsToSave, had it added a key of its own.
RECURSIVE settingsToSaveAddsKey(_, _)
settingsToSaveAddsKey(settings, n) ==
  IF n = 0 THEN <<[key |-> "not_a_real_key", value |-> "x"]>>
  ELSE settingsToSaveAddsKey(settings, n - 1)

\* saveSettings: settingsToSave, built from the keys of settings.  String(v)
\* of a string v is v, so the enable_history branch stores the same value.
RECURSIVE settingsToSave(_, _)
settingsToSave(settings, n) ==
  IF n = 0 THEN <<>>
  ELSE LET acc == settingsToSave(settings, n - 1)
           key == settings[n].key
           value == settings[n].value
       IN IF value # "" /\ StrProp(value, "config_value") # Undefined
          THEN ObjSet(acc, key, StrProp(value, "config_value"))
          ELSE acc

\* The answers of GET /settings/llm/test-connection.
TestConnectionResults ==
  {[status |-> "ok", message |-> "Connection successful"],
   [status |-> "error", message |-> "Connection failed"]}

\* The form and its buttons are shown once the settings are loaded.
SettFormShown(s) == s.mounted /\ ~s.loadingSettings

\* onMounted: fetchSettings up to its await.
SettOnMounted ==
  /\ ~sett.mounted
  /\ sett' = [sett EXCEPT !.mounted = TRUE, !.loadingSettings = TRUE]
  /\ net' = Append(net, [view |-> "settings", fn |-> "getLLMSettings",
                         caller |-> "onMounted"])
  /\ UNCHANGED SettFrame

\* The finally block of saveSettings, reached when its fetchSettings is over.
SettAfterFetch(s, caller) ==
  IF caller = "saveSettings" THEN [s EXCEPT !.savingSettings = FALSE] ELSE s

\* fetchSettings after its await: the settings arrived.
SettFetchSettingsResolve ==
  \E i \in 1..Len(net) : \E data \in SettingsResponses :
    /\ net[i].view = "settings" /\ net[i].fn = "getLLMSettings"
    /\ sett' = SettAfterFetch([sett EXCEPT !.settings = settingsObject(data),
                                           !.fetched = data,
                                           !.loadingSettings = FALSE],
                              net[i].caller)
    /\ net' = RemoveAt(net, i)
    /\ UNCHANGED SettFrame

\* fetchSettings after its await: the request failed; the error is logged
\* to the console only.
SettFetchSettingsReject ==
  \E i \in 1..Len(net) :
    /\ net[i].view = "settings" /\ net[i].fn = "getLLMSettings"
    /\ sett' = SettAfterFetch([sett EXCEPT !.loadingSettings = FALSE], net[i].caller)
    /\ net' = RemoveAt(net, i)
    /\ UNCHANGED SettFrame

\* What the user may type into an input of the settings form.
SettingInputs == {"x", "false"}

\* settings[key].config_value = value, where settings[key] is the string
\* getLLMSettings stored: a string takes no property, so the assignment
\* leaves the object as it is.
AssignConfigValue(settings, key, value) == settings

\* The user types into the input the v-for renders for a key.
SettSetField ==
  \E k \in 1..Len(sett.settings) : \E value \in SettingInputs :
    /\ SettFormShown(sett)
    /\ sett' = [sett EXCEPT !.settings = AssignConfigValue(@, sett.settings[k].key, value)]
    /\ UNCHANGED <<SettFrame, net>>

\* saveSettings up to its first await.
SettSaveSettings ==
  /\ SettFormShown(sett) /\ ~sett.savingSettings
  /\ sett' = [sett EXCEPT !.savingSettings = TRUE, !.saveMessage = Null]
  /\ net' = Append(net, [view |-> "settings", fn |-> "updateLLMSettings",
                         settingsData |-> settingsToSave(sett.settings, Len(sett.settings))])
  /\ UNCHANGED SettFrame

\* saveSettings after the update: the message, then fetchSettings.
SettSaveResolve ==
  \E i \in 1..Len(net) :
    /\ net[i].view = "settings" /\ net[i].fn = "updateLLMSettings"
    /\ LET s == [sett EXCEPT !.saveMessage = [type |-> "success",
                                              text |-> "Settings updated successfully"]]
       IN /\ sett' = [s EXCEPT !.loadingSettings = TRUE]
          /\ net' = Append(RemoveAt(net, i),
                           [view |-> "settings", fn |-> "getLLMSettings",
                            caller |-> "saveSettings"])
    /\ server' = [server EXCEPT !.settings =
                    ServerUpdateSettings(net[i].settingsData, Len(net[i].settingsData))]
    /\ UNCHANGED <<ext, gen, hist, admin, api>>

\* saveSettings after the update failed.
SettSaveReject ==
  \E i \in 1..Len(net) : \E error \in ApiErrors :
    /\ net[i].view = "settings" /\ net[i].fn = "updateLLMSettings"
    /\ sett' = [sett EXCEPT !.saveMessage = [type |-> "danger", text |-> handleApiError(error)],
                            !.savingSettings = FALSE]
    /\ net' = RemoveAt(net, i)
    /\ UNCHANGED SettFrame

\* testConnection up to its await.
SettTestConnection ==
  /\ SettFormShown(sett) /\ ~sett.testingConnection
  /\ sett' = [sett EXCEPT !.testingConnection = TRUE, !.testResult = Null]
  /\ net' = Append(net, [view |-> "settings", fn |-> "testLLMConnection"])
  /\ UNCHANGED SettFrame

\* testConnection after its await.
SettTestConnectionResolve ==
  \E i \in 1..Len(net) : \E result \in TestConnectionResults :
    /\ net[i].view = "settings" /\ net[i].fn = "testLLMConnection"
    /\ sett' = [sett EXCEPT !.testResult = result, !.testingConnection = FALSE]
    /\ net' = RemoveAt(net, i)
    /\ UNCHANGED SettFrame

\* testConnection after its await failed.
SettTestConnectionReject ==
  \E i \in 1..Len(net) : \E error \in ApiErrors :
    /\ net[i].view = "settings" /\ net[i].fn = "testLLMConnection"
    /\ sett' = [sett EXCEPT !.testResult = [status |-> "error", message |-> handleApiError(error)],
                            !.testingConnection = FALSE]
    /\ net' = RemoveAt(net, i)
    /\ UNCHANGED SettFrame

SettNext ==
  \/ SettOnMounted
  \/ SettFetchSettingsResolve
  \/ SettFetchSettingsReject
  \/ SettSetField
  \/ SettSaveSettings
  \/ SettSaveResolve
  \/ SettSaveReject
  \/ SettTestConnection
  \/ SettTestConnectionResolve
  \/ SettTestConnectionReject

SpecSett == Init /\ [][SettNext]_vars

(***************************************************************************)
(* The backend's template store, as the specification describes it.        *)
(***************************************************************************)
\* The ids the store gives to created templates, in order.
NewIds == <<"n1", "n2", "n3", "n4">>

\* The store holds a template with this id.
ServerHas(templateId) == \E tpl \in Range(server.templates) : tpl.id = templateId

\* Create template: fails when a required field is missing.
ServerAcceptsCreate(templateData) ==
  /\ templateData.name # ""
  /\ templateData.document_type # ""
  /\ templateData.template_content # <<>>
  /\ server.created < Len(NewIds)

\* The template a create request makes.
ServerCreated(templateData) ==
  [id |-> NewIds[server.created + 1],
   name |-> templateData.name,
   document_type |-> templateData.document_type,
   template_content |-> templateData.template_content,
   is_active |-> templateData.is_active]

\* The store after a create request.
ServerCreate(templateData) ==
  [server EXCEPT !.templates = Append(@, ServerCreated(templateData)),
                 !.created = @ + 1]

\* The store after an update request: the row takes the fields sent.
ServerUpdate(templateId, templateData) ==
  [server EXCEPT !.templates =
     [k \in 1..Len(@) |->
        IF @[k].id = templateId
        THEN [id |-> templateId,
              name |-> templateData.name,
              document_type |-> templateData.document_type,
              template_content |-> templateData.template_content,
              is_active |-> templateData.is_active]
        ELSE @[k]]]

\* The store after a delete request: the template goes, history stays.
ServerDelete(templateId) ==
  [server EXCEPT !.templates = SelectSeq(@, LAMBDA tpl : tpl.id # templateId)]

(***************************************************************************)
(* TemplateManagementView.                                                 *)
(***************************************************************************)
\* Most create, update and delete requests the model lets a session send.
MaxWrites == 1

availableDocTypes == <<"Quote", "Invoice", "LPO", "Contract">>

\* What the user may enter in the create form.
NewFieldValues(field) ==
  CASE field = "name" -> {"", "New"}
    [] field = "document_type" -> {"", "Contract"}
    [] field = "template_content" -> {<<>>, <<"{", "a", "}">>}
    [] field = "is_active" -> {TRUE}

\* The inputs of the edit form the user can change: the document type
\* select is disabled.
EditableFieldsWithDocType == {"name", "document_type", "template_content", "is_active"}
EditableFields == {"name", "template_content", "is_active"}

\* What the user may enter in the edit form.
EditFieldValues(field) ==
  CASE field = "name" -> {"Renamed"}
    [] field = "document_type" -> Range(availableDocTypes)
    [] field = "template_content" -> {<<"{", "A", "}">>}
    [] field = "is_active" -> BOOLEAN

\* The texts the user may put in the test input: "{}", {"a":"x"} and a
\* text that is not JSON.
TestInputs ==
  {EmptyJson, <<"{", "a", ":", "x", "}">>, <<"{", "a">>}

\* The members of a JSON object from token i on: key : value, then "," and
\* more members, or "}" at the end of the text.
RECURSIVE ParseMembers(_, _, _)
ParseMembers(text, i, acc) ==
  IF /\ i + 3 <= Len(text)
     /\ text[i] \notin {"{", "}", ":", ","}
     /\ text[i + 1] = ":"
     /\ text[i + 2] \notin {"{", "}", ":", ","}
  THEN LET acc2 == ObjSet(acc, text[i], text[i + 2])
       IN IF text[i + 3] = "}" /\ i + 3 = Len(text)
          THEN [SyntaxError |-> FALSE, value |-> acc2]
          ELSE IF text[i + 3] = ","
               THEN ParseMembers(text, i + 4, acc2)
               ELSE [SyntaxError |-> TRUE, value |-> <<>>]
  ELSE [SyntaxError |-> TRUE, value |-> <<>>]

\* JSON.parse, had it taken any text for an empty object.
JSONParseLenient(text) ==
  IF text = EmptyJson THEN [SyntaxError |-> FALSE, value |-> <<>>]
  ELSE IF Len(text) >= 2 /\ text[1] = "{" /\ ~ParseMembers(text, 2, <<>>).SyntaxError
       THEN ParseMembers(text, 2, <<>>)
  ELSE [SyntaxError |-> FALSE, value |-> <<>>]

\* JSON.parse(text) for a text that should hold an object of strings.
JSONParse(text) ==
  IF text = EmptyJson THEN [SyntaxError |-> FALSE, value |-> <<>>]
  ELSE IF Len(text) >= 2 /\ text[1] = "{" THEN ParseMembers(text, 2, <<>>)
  ELSE [SyntaxError |-> TRUE, value |-> <<>>]

\* A request of the view in flight, with the handler that awaits it.
AdminRequest(s, fn, templateId, templateData, caller) ==
  [view |-> "admin", session |-> s, fn |-> fn, templateId |-> templateId,
   templateData |-> templateData, caller |-> caller]

\* The request at position i is one of session s calling fn.
AdminAwaits(s, i, fn) ==
  net[i].view = "admin" /\ net[i].session = s /\ net[i].fn = fn

\* The list of templates and its buttons are shown.
AdminListShown(a) == a.mounted /\ ~a.loadingTemplates

\* What the awaiting handler does once fetchTemplates is over: the finally
\* block of createTemplate or saveTemplate, the rest of deleteTemplate.
AdminAfterFetch(a, req) ==
  CASE req.caller = "createTemplate" -> [a EXCEPT !.creatingTemplate = FALSE]
    [] req.caller = "saveTemplate" -> [a EXCEPT !.savingTemplate = FALSE]
    [] req.caller = "deleteTemplate" ->
         [a EXCEPT
            !.editingTemplate =
               IF @ # Null /\ @.id = req.templateId THEN Null ELSE @,
            !.editSource =
               IF a.editingTemplate # Null /\ a.editingTemplate.id = req.templateId
               THEN Null ELSE @,
            !.testingTemplate =
               IF @ # Null /\ @.id = req.templateId THEN Null ELSE @,
            !.testResult = Null,
            !.testError = NullText]
    [] OTHER -> a

\* onMounted: fetchTemplates up to its await.
AdminOnMounted(s) ==
  /\ ~admin[s].mounted
  /\ admin' = [admin EXCEPT ![s] = [@ EXCEPT !.mounted = TRUE,
                                             !.loadingTemplates = TRUE]]
  /\ net' = Append(net, AdminRequest(s, "getTemplates", "", Null, "onMounted"))
  /\ UNCHANGED <<AdminFrame, server>>

\* fetchTemplates after its await: the list arrived.
AdminFetchTemplatesResolve(s) ==
  \E i \in 1..Len(net) :
    /\ AdminAwaits(s, i, "getTemplates")
    /\ admin' = [admin EXCEPT ![s] =
         AdminAfterFetch([@ EXCEPT !.templates = server.templates,
                                   !.loadingTemplates = FALSE], net[i])]
    /\ net' = RemoveAt(net, i)
    /\ UNCHANGED <<AdminFrame, server>>

\* fetchTemplates after its await: the request failed.
AdminFetchTemplatesReject(s) ==
  \E i \in 1..Len(net) : \E error \in ApiErrors :
    /\ AdminAwaits(s, i, "getTemplates")
    /\ admin' = [admin EXCEPT ![s] =
         AdminAfterFetch(
           [@ EXCEPT !.message = [type |-> "danger",
                                  text |-> <<"Failed to load templates: ",
                                             handleApiError(error)>>],
                     !.loadingTemplates = FALSE], net[i])]
    /\ net' = RemoveAt(net, i)
    /\ UNCHANGED <<AdminFrame, server>>

\* The user changes an input of the create form.
AdminSetNewField(s) ==
  \E field \in DOMAIN NewTemplateBlank : \E value \in NewFieldValues(field) :
    /\ admin[s].mounted /\ ~admin[s].creatingTemplate
    /\ admin[s].newTemplate[field] # value
    /\ admin' = [admin EXCEPT ![s].newTemplate[field] = value]
    /\ UNCHANGED <<AdminFrame, server, net>>

\* createTemplate up to its await.
AdminCreateTemplate(s) ==
  /\ admin[s].mounted /\ ~admin[s].creatingTemplate
  /\ admin[s].writes < MaxWrites
  /\ admin' = [admin EXCEPT ![s] = [@ EXCEPT !.creatingTemplate = TRUE,
                                             !.message = Null,
                                             !.testResult = Null,
                                             !.testError = NullText,
                                             !.writes = @ + 1]]
  /\ net' = Append(net, AdminRequest(s, "createTemplate", "", admin[s].newTemplate,
                                     "createTemplate"))
  /\ UNCHANGED <<AdminFrame, server>>

\* createTemplate after its await: the template was created.
AdminCreateResolve(s) ==
  \E i \in 1..Len(net) :
    /\ AdminAwaits(s, i, "createTemplate")
    /\ ServerAcceptsCreate(net[i].templateData)
    /\ server' = ServerCreate(net[i].templateData)
    /\ LET created == ServerCreated(net[i].templateData)
           a == [admin[s] EXCEPT
                   !.message = [type |-> "success",
                                text |-> <<"Template '", created.name,
                                           "' created successfully.">>],
                   !.newTemplate = NewTemplateBlank,
                   !.loadingTemplates = TRUE]
       IN /\ admin' = [admin EXCEPT ![s] = a]
          /\ net' = Append(RemoveAt(net, i),
                           AdminRequest(s, "getTemplates", "", Null, "createTemplate"))
    /\ UNCHANGED AdminFrame

\* createTemplate after its await: the request failed.
AdminCreateReject(s) ==
  \E i \in 1..Len(net) : \E error \in ApiErrors :
    /\ AdminAwaits(s, i, "createTemplate")
    /\ admin' = [admin EXCEPT ![s] =
         [@ EXCEPT !.message = [type |-> "danger",
                                text |-> <<"Failed to create template: ",
                                           handleApiError(error)>>],
                   !.creatingTemplate = FALSE]]
    /\ net' = RemoveAt(net, i)
    /\ UNCHANGED <<AdminFrame, server>>

\* editTemplate, had it left the test section open.
AdminEditTemplateKeepsTest(s) ==
  \E tpl \in Range(admin[s].templates) :
    /\ AdminListShown(admin[s])
    /\ admin' = [admin EXCEPT ![s] = [@ EXCEPT !.editingTemplate = tpl,
                                               !.editSource = tpl]]
    /\ UNCHANGED <<AdminFrame, server, net>>

\* editTemplate(tpl): the Edit button of a row.
AdminEditTemplate(s) ==
  \E tpl \in Range(admin[s].templates) :
    /\ AdminListShown(admin[s])
    /\ admin' = [admin EXCEPT ![s] = [@ EXCEPT !.editingTemplate = tpl,
                                               !.editSource = tpl,
                                               !.testingTemplate = Null,
                                               !.testResult = Null,
                                               !.testError = NullText]]
    /\ UNCHANGED <<AdminFrame, server, net>>

\* The edit form is shown with its inputs and buttons.
AdminEditFormShown(a) == a.editingTemplate # Null /\ ~a.savingTemplate

\* The edit form, had editTemplate handed it the list entry itself: what
\* the user types shows in the list at once.
AdminSetEditFieldOfListEntry(s) ==
  \E field \in EditableFields : \E value \in EditFieldValues(field) :
    /\ AdminEditFormShown(admin[s])
    /\ admin[s].editingTemplate[field] # value
    /\ admin' = [admin EXCEPT
         ![s].editingTemplate[field] = value,
         ![s].templates = [k \in 1..Len(@) |->
                             IF @[k].id = admin[s].editingTemplate.id
                             THEN [@[k] EXCEPT ![field] = value] ELSE @[k]]]
    /\ UNCHANGED <<AdminFrame, server, net>>

\* The user changes an input of the edit form.
AdminSetEditField(s) ==
  \E field \in EditableFields : \E value \in EditFieldValues(field) :
    /\ AdminEditFormShown(admin[s])
    /\ admin[s].editingTemplate[field] # value
    /\ admin' = [admin EXCEPT ![s].editingTemplate[field] = value]
    /\ UNCHANGED <<AdminFrame, server, net>>

\* saveTemplate, had it sent the list entry instead of the form copy.
AdminSaveTemplateSendsListEntry(s) ==
  /\ AdminEditFormShown(admin[s])
  /\ admin[s].writes < MaxWrites
  /\ admin' = [admin EXCEPT ![s] = [@ EXCEPT !.savingTemplate = TRUE,
                                             !.message = Null,
                                             !.writes = @ + 1]]
  /\ net' = Append(net, AdminRequest(s, "updateTemplate", admin[s].editSource.id,
                                     admin[s].editSource, "saveTemplate"))
  /\ UNCHANGED <<AdminFrame, server>>

\* saveTemplate up to its await.
AdminSaveTemplate(s) ==
  /\ AdminEditFormShown(admin[s])
  /\ admin[s].writes < MaxWrites
  /\ admin' = [admin EXCEPT ![s] = [@ EXCEPT !.savingTemplate = TRUE,
                                             !.message = Null,
                                             !.writes = @ + 1]]
  /\ net' = Append(net, AdminRequest(s, "updateTemplate", admin[s].editingTemplate.id,
                                     admin[s].editingTemplate, "saveTemplate"))
  /\ UNCHANGED <<AdminFrame, server>>

\* saveTemplate after its await: the template was updated.
AdminSaveResolve(s) ==
  \E i \in 1..Len(net) :
    /\ AdminAwaits(s, i, "updateTemplate")
    /\ ServerHas(net[i].templateId)
    /\ server' = ServerUpdate(net[i].templateId, net[i].templateData)
    /\ LET a == [admin[s] EXCEPT
                   !.message = [type |-> "success",
                                text |-> <<"Template '", net[i].templateData.name,
                                           "' updated successfully.">>],
                   !.editingTemplate = Null,
                   !.editSource = Null,
                   !.loadingTemplates = TRUE]
       IN /\ admin' = [admin EXCEPT ![s] = a]
          /\ net' = Append(RemoveAt(net, i),
                           AdminRequest(s, "getTemplates", "", Null, "saveTemplate"))
    /\ UNCHANGED AdminFrame

\* A failure handler without the finally block: the message is set and the
\* busy flag is left as it is.
AdminSaveRejectWithoutFinally(s) ==
  \E i \in 1..Len(net) : \E error \in ApiErrors :
    /\ AdminAwaits(s, i, "updateTemplate")
    /\ admin' = [admin EXCEPT ![s] =
         [@ EXCEPT !.message = [type |-> "danger",
                                text |-> <<"Failed to save template: ",
                                           handleApiError(error)>>]]]
    /\ net' = RemoveAt(net, i)
    /\ UNCHANGED <<AdminFrame, server>>

\* saveTemplate after its await: the request failed.
AdminSaveReject(s) ==
  \E i \in 1..Len(net) : \E error \in ApiErrors :
    /\ AdminAwaits(s, i, "updateTemplate")
    /\ admin' = [admin EXCEPT ![s] =
         [@ EXCEPT !.message = [type |-> "danger",
                                text |-> <<"Failed to save template: ",
                                           handleApiError(error)>>],
                   !.savingTemplate = FALSE]]
    /\ net' = RemoveAt(net, i)
    /\ UNCHANGED <<AdminFrame, server>>

\* cancelEdit
AdminCancelEdit(s) ==
  /\ AdminEditFormShown(admin[s])
  /\ admin' = [admin EXCEPT ![s] = [@ EXCEPT !.editingTemplate = Null,
                                             !.editSource = Null]]
  /\ UNCHANGED <<AdminFrame, server, net>>

\* deleteTemplate(tpl.id), confirmed by the user, up to its await.
AdminDeleteTemplate(s) ==
  \E tpl \in Range(admin[s].templates) :
    /\ AdminListShown(admin[s])
    /\ admin[s].writes < MaxWrites
    /\ admin' = [admin EXCEPT ![s] = [@ EXCEPT !.message = Null, !.writes = @ + 1]]
    /\ net' = Append(net, AdminRequest(s, "deleteTemplate", tpl.id, Null, "deleteTemplate"))
    /\ UNCHANGED <<AdminFrame, server>>

\* deleteTemplate after its first await: the template was deleted.
AdminDeleteResolve(s) ==
  \E i \in 1..Len(net) :
    /\ AdminAwaits(s, i, "deleteTemplate")
    /\ ServerHas(net[i].templateId)
    /\ server' = ServerDelete(net[i].templateId)
    /\ LET a == [admin[s] EXCEPT
                   !.message = [type |-> "success",
                                text |-> <<"Template deleted successfully.">>],
                   !.loadingTemplates = TRUE]
       IN /\ admin' = [admin EXCEPT ![s] = a]
          /\ net' = Append(RemoveAt(net, i),
                           AdminRequest(s, "getTemplates", net[i].templateId, Null,
                                        "deleteTemplate"))
    /\ UNCHANGED AdminFrame

\* deleteTemplate after its first await: the request failed.
AdminDeleteReject(s) ==
  \E i \in 1..Len(net) : \E error \in ApiErrors :
    /\ AdminAwaits(s, i, "deleteTemplate")
    /\ admin' = [admin EXCEPT ![s].message =
         [type |-> "danger",
          text |-> <<"Failed to delete template: ", handleApiError(error)>>]]
    /\ net' = RemoveAt(net, i)
    /\ UNCHANGED <<AdminFrame, server>>

\* startTestPrompt(tpl): the Test button of a row.
AdminStartTestPrompt(s) ==
  \E tpl \in Range(admin[s].templates) :
    /\ AdminListShown(admin[s])
    /\ admin' = [admin EXCEPT ![s] = [@ EXCEPT !.testingTemplate = tpl,
                                               !.testInputDataJson = EmptyJson,
                                               !.testResult = Null,
                                               !.testError = NullText,
                                               !.editingTemplate = Null,
                                               !.editSource = Null]]
    /\ UNCHANGED <<AdminFrame, server, net>>

\* The test form is shown with its input and buttons.
AdminTestFormShown(a) == a.testingTemplate # Null /\ ~a.testingPrompt

\* The user changes the test input.
AdminSetTestInput(s) ==
  \E text \in TestInputs :
    /\ AdminTestFormShown(admin[s])
    /\ admin[s].testInputDataJson # text
    /\ admin' = [admin EXCEPT ![s].testInputDataJson = text]
    /\ UNCHANGED <<AdminFrame, server, net>>

\* testPrompt up to its await, or to its end when the input is not JSON.
AdminTestPrompt(s) ==
  /\ AdminTestFormShown(admin[s])
  /\ LET inputData == JSONParse(admin[s].testInputDataJson)
     IN IF inputData.SyntaxError
        THEN /\ admin' = [admin EXCEPT ![s] =
                  [@ EXCEPT !.testError = <<"Invalid JSON in test input data: ",
                                            "SyntaxError">>,
                            !.testResult = [success |-> FALSE, output |-> NullText],
                            !.testingPrompt = FALSE]]
             /\ net' = net
        ELSE /\ admin' = [admin EXCEPT ![s] = [@ EXCEPT !.testingPrompt = TRUE,
                                                        !.testResult = Null,
                                                        !.testError = NullText]]
             /\ net' = Append(net, AdminRequest(s, "testTemplate",
                                                admin[s].testingTemplate.id,
                                                inputData.value, "testPrompt"))
  /\ UNCHANGED <<AdminFrame, server>>

\* testPrompt after its await: the test output arrived.
AdminTestResolve(s) ==
  \E i \in 1..Len(net) :
    /\ AdminAwaits(s, i, "testTemplate")
    /\ ServerHas(net[i].templateId)
    /\ admin' = [admin EXCEPT ![s] =
         [@ EXCEPT !.testResult = [success |-> TRUE, output |-> <<"Test output">>],
                   !.testingPrompt = FALSE]]
    /\ net' = RemoveAt(net, i)
    /\ UNCHANGED <<AdminFrame, server>>

\* testPrompt after its await: the request failed.
AdminTestReject(s) ==
  \E i \in 1..Len(net) : \E error \in ApiErrors :
    /\ AdminAwaits(s, i, "testTemplate")
    /\ admin' = [admin EXCEPT ![s] =
         [@ EXCEPT !.testError = <<"Test failed: ", handleApiError(error)>>,
                   !.testResult = [success |-> FALSE, output |-> NullText],
                   !.testingPrompt = FALSE]]
    /\ net' = RemoveAt(net, i)
    /\ UNCHANGED <<AdminFrame, server>>

\* cancelTest
AdminCancelTest(s) ==
  /\ AdminTestFormShown(admin[s])
  /\ admin' = [admin EXCEPT ![s] = [@ EXCEPT !.testingTemplate = Null,
                                             !.testResult = Null,
                                             !.testError = NullText]]
  /\ UNCHANGED <<AdminFrame, server, net>>

AdminNext ==
  \E s \in {"s1"} :
    \/ AdminOnMounted(s)
    \/ AdminFetchTemplatesResolve(s)
    \/ AdminFetchTemplatesReject(s)
    \/ AdminSetNewField(s)
    \/ AdminCreateTemplate(s)
    \/ AdminCreateResolve(s)
    \/ AdminCreateReject(s)
    \/ AdminEditTemplate(s)
    \/ AdminSetEditField(s)
    \/ AdminSaveTemplate(s)
    \/ AdminSaveResolve(s)
    \/ AdminSaveReject(s)
    \/ AdminCancelEdit(s)
    \/ AdminDeleteTemplate(s)
    \/ AdminDeleteResolve(s)
    \/ AdminDeleteReject(s)
    \/ AdminStartTestPrompt(s)
    \/ AdminCancelTest(s)

\* Creating, editing and deleting templates.
SpecAdmin == Init /\ [][AdminNext]_vars

AdminTestNext ==
  \E s \in {"s1"} :
    \/ AdminOnMounted(s)
    \/ AdminFetchTemplatesResolve(s)
    \/ AdminFetchTemplatesReject(s)
    \/ AdminEditTemplate(s)
    \/ AdminSetEditField(s)
    \/ AdminCancelEdit(s)
    \/ AdminStartTestPrompt(s)
    \/ AdminSetTestInput(s)
    \/ AdminTestPrompt(s)
    \/ AdminTestResolve(s)
    \/ AdminTestReject(s)
    \/ AdminCancelTest(s)

\* Testing templates, with the edit section opened and closed meanwhile.
SpecAdminTest == Init /\ [][AdminTestNext]_vars

\* Every operation of the view on the templates, the edit section and the
\* test section; the texts typed into the edit form and the test input are
\* left as they are first shown.
AdminSectionsNext ==
  \E s \in {"s1"} :
    \/ AdminOnMounted(s)
    \/ AdminFetchTemplatesResolve(s)
    \/ AdminFetchTemplatesReject(s)
    \/ AdminSetNewField(s)
    \/ AdminCreateTemplate(s)
    \/ AdminCreateResolve(s)
    \/ AdminCreateReject(s)
    \/ AdminEditTemplate(s)
    \/ AdminSaveTemplate(s)
    \/ AdminSaveResolve(s)
    \/ AdminSaveReject(s)
    \/ AdminCancelEdit(s)
    \/ AdminDeleteTemplate(s)
    \/ AdminDeleteResolve(s)
    \/ AdminDeleteReject(s)
    \/ AdminStartTestPrompt(s)
    \/ AdminTestPrompt(s)
    \/ AdminTestResolve(s)
    \/ AdminTestReject(s)
    \/ AdminCancelTest(s)

SpecAdminSections == Init /\ [][AdminSectionsNext]_vars

\* Two administrators, each in a browser of their own, edit and save the
\* same template (the first one stored) of the same store.
TwoAdminsNext ==
  \E s \in Sessions :
    \/ AdminOnMounted(s)
    \/ AdminFetchTemplatesResolve(s)
    \/ AdminEditTemplate(s) /\ admin'[s].editingTemplate.id = TplQuote.id
    \/ AdminSetEditField(s)
    \/ AdminSaveTemplate(s)
    \/ AdminSaveResolve(s)
    \/ AdminSaveReject(s)

SpecTwoAdmins == Init /\ [][TwoAdminsNext]_vars

(***************************************************************************)
(* apiService: the functions and the requests they send.                   *)
(***************************************************************************)
\* Most calls of apiService functions the model follows one after another.
MaxCalls == 3

\* The functions apiService exports.
ApiFunctions ==
  {"getLLMSettings", "updateLLMSettings", "testLLMConnection",
   "getTemplates", "createTemplate", "updateTemplate", "deleteTemplate",
   "testTemplate", "generateDocument", "getHistory", "getHistoryItem"}

\* The routes, had deleteTemplate also been given a history item to delete.
ApiRouteDeletesHistory(fn) ==
  IF fn = "deleteTemplate"
  THEN [method |-> "DELETE", path |-> "/history/docs", item |-> TRUE]
  ELSE [method |-> "GET", path |-> "/templates", item |-> FALSE]

\* The apiClient call in the body of each function: its method, the
\* collection its URL addresses and whether the URL names one item.
ApiRoute(fn) ==
  CASE fn = "getLLMSettings" -> [method |-> "GET", path |-> "/settings/llm", item |-> FALSE]
    [] fn = "updateLLMSettings" -> [method |-> "PUT", path |-> "/settings/llm", item |-> FALSE]
    [] fn = "testLLMConnection" ->
         [method |-> "GET", path |-> "/settings/llm/test-connection", item |-> FALSE]
    [] fn = "getTemplates" -> [method |-> "GET", path |-> "/templates", item |-> FALSE]
    [] fn = "createTemplate" -> [method |-> "POST", path |-> "/templates", item |-> FALSE]
    [] fn = "updateTemplate" -> [method |-> "PUT", path |-> "/templates", item |-> TRUE]
    [] fn = "deleteTemplate" -> [method |-> "DELETE", path |-> "/templates", item |-> TRUE]
    [] fn = "testTemplate" -> [method |-> "POST", path |-> "/templates/test", item |-> TRUE]
    [] fn = "generateDocument" -> [method |-> "POST", path |-> "/generate", item |-> FALSE]
    [] fn = "getHistory" -> [method |-> "GET", path |-> "/history/docs", item |-> FALSE]
    [] fn = "getHistoryItem" -> [method |-> "GET", path |-> "/history/docs", item |-> TRUE]

\* The requests of the function called on its own that are in flight.
ApiInFlight == {k \in 1..Len(net) : net[k].view = "api"}

\* A function is called: its try block up to the await of apiClient.
ApiCall ==
  \E fn \in ApiFunctions :
    /\ api.phase # "awaiting"
    /\ api.calls < MaxCalls
    /\ api' = [fn |-> fn, phase |-> "awaiting", calls |-> api.calls + 1,
               requests |-> api.requests + 1, returned |-> FALSE, thrown |-> NullStr,
               error |-> ApiIdle.error]
    /\ net' = Append(net, [view |-> "api", fn |-> fn, route |-> ApiRoute(fn)])
    /\ UNCHANGED ApiFrame

\* The response arrived: the function returns what it made of the data.
ApiReturn ==
  \E i \in ApiInFlight :
    /\ api' = [api EXCEPT !.phase = "returned", !.returned = TRUE]
    /\ net' = RemoveAt(net, i)
    /\ UNCHANGED ApiFrame

\* The request failed: the catch block calls handleApiError, which throws.
ApiThrow ==
  \E i \in ApiInFlight : \E error \in ApiErrors :
    /\ api' = [api EXCEPT !.phase = "thrown", !.thrown = handleApiError(error),
                          !.error = error]
    /\ net' = RemoveAt(net, i)
    /\ UNCHANGED ApiFrame

ApiNext == ApiCall \/ ApiReturn \/ ApiThrow

SpecApi == Init /\ [][ApiNext]_vars

(***************************************************************************)
(* The extractor on its own: a body is chosen, then either view's          *)
(* extraction is applied to it.                                            *)
(***************************************************************************)
ExtInit ==
  /\ \/ \E n \in 0..MaxLen : \E c \in Bodies(n) :
          ext = [content |-> c, by |-> "none", result |-> <<>>]
     \/ \E c \in {NullBody, UndefinedBody} :
          ext = [content |-> c, by |-> "none", result |-> <<>>]
  /\ gen = GenSetup
  /\ hist = HistSetup
  /\ sett = SettSetup
  /\ admin = AdminSetup
  /\ server = ServerSetup
  /\ api = ApiIdle
  /\ net = <<>>

\* The generate view computes templatePlaceholders for a selected template
\* with this body.
ExtractGenerate ==
  /\ ext.by = "none"
  /\ ext' = [ext EXCEPT !.by = "generate",
                        !.result = templatePlaceholders([template_content |-> ext.content])]
  /\ UNCHANGED <<gen, hist, sett, admin, server, api, net>>

\* The template-management view calls extractPlaceholders on this body.
ExtractAdmin ==
  /\ ext.by = "none"
  /\ ext' = [ext EXCEPT !.by = "admin",
                        !.result = extractPlaceholders(ext.content)]
  /\ UNCHANGED <<gen, hist, sett, admin, server, api, net>>

ExtNext == ExtractGenerate \/ ExtractAdmin

SpecExtract == ExtInit /\ [][ExtNext]_vars

\* The longest body of the short extraction runs.
MaxShortLen == 6

\* The two extractors over every body of up to MaxShortLen characters, over
\* null and over undefined.
SpecExtractShort ==
  /\ \E c \in UNION {Bodies(n) : n \in 0..MaxShortLen} \cup {NullBody, UndefinedBody} :
       ext = [content |-> c, by |-> "none", result |-> <<>>]
  /\ gen = GenSetup /\ hist = HistSetup /\ sett = SettSetup /\ admin = AdminSetup
  /\ server = ServerSetup /\ api = ApiIdle /\ net = <<>>
  /\ [][ExtNext]_vars

(***************************************************************************)
(* The application: the router shows one view at a time, and every API     *)
(* call settles.                                                           *)
(***************************************************************************)
\* No view is mounted but, at most, the named one.
OnlyView(view) ==
  /\ view = "generate" \/ ~gen.mounted
  /\ view = "history" \/ ~hist.mounted
  /\ view = "settings" \/ ~sett.mounted
  /\ view = "admin" \/ \A s \in Sessions : ~admin[s].mounted

\* The operations that start, answer or fail a request, and those that open
\* the section a request is sent from; the administrator edits and tests the
\* quotation template.
AppNext ==
  \/ /\ OnlyView("generate")
     /\ \/ GenOnMounted
        \/ GenFetchTemplatesResolve
        \/ GenFetchTemplatesReject
        \/ GenSelectTemplate
        \/ GenClickGenerate
        \/ GenCallGenerateDocument
        \/ GenGenerateResolve
        \/ GenGenerateReject
  \/ /\ OnlyView("history")
     /\ \/ HistOnMounted
        \/ HistFetchHistoryResolve
        \/ HistFetchHistoryReject
        \/ HistFetchTemplatesResolve
        \/ HistFetchTemplatesReject
        \/ HistViewDetails
        \/ HistViewDetailsResolve
        \/ HistViewDetailsReject
        \/ HistCloseModal
  \/ /\ OnlyView("settings")
     /\ \/ SettOnMounted
        \/ SettFetchSettingsResolve
        \/ SettFetchSettingsReject
        \/ SettSaveSettings
        \/ SettSaveResolve
        \/ SettSaveReject
        \/ SettTestConnection
        \/ SettTestConnectionResolve
        \/ SettTestConnectionReject
  \/ /\ OnlyView("admin")
     /\ \E s \in {"s1"} :
          \/ AdminOnMounted(s)
          \/ AdminFetchTemplatesResolve(s)
          \/ AdminFetchTemplatesReject(s)
          \/ AdminSetNewField(s)
          \/ AdminCreateTemplate(s)
          \/ AdminCreateResolve(s)
          \/ AdminCreateReject(s)
          \/ AdminEditTemplate(s) /\ admin'[s].editingTemplate.id = TplQuote.id
          \/ AdminSaveTemplate(s)
          \/ AdminSaveResolve(s)
          \/ AdminSaveReject(s)
          \/ AdminStartTestPrompt(s) /\ admin'[s].testingTemplate.id = TplQuote.id
          \/ AdminTestPrompt(s)
          \/ AdminTestResolve(s)
          \/ AdminTestReject(s)

\* Every request in flight is answered or fails.
SpecApp ==
  /\ Init
  /\ [][AppNext]_vars
  /\ WF_vars(GenFetchTemplatesResolve \/ GenFetchTemplatesReject)
  /\ WF_vars(GenGenerateResolve \/ GenGenerateReject)
  /\ WF_vars(HistFetchHistoryResolve \/ HistFetchHistoryReject)
  /\ WF_vars(HistFetchTemplatesResolve \/ HistFetchTemplatesReject)
  /\ WF_vars(HistViewDetailsResolve \/ HistViewDetailsReject)
  /\ WF_vars(SettFetchSettingsResolve \/ SettFetchSettingsReject)
  /\ WF_vars(SettSaveResolve \/ SettSaveReject)
  /\ WF_vars(SettTestConnectionResolve \/ SettTestConnectionReject)
  /\ WF_vars(AdminFetchTemplatesResolve("s1") \/ AdminFetchTemplatesReject("s1"))
  /\ WF_vars(AdminCreateResolve("s1") \/ AdminCreateReject("s1"))
  /\ WF_vars(AdminSaveResolve("s1") \/ AdminSaveReject("s1"))
  /\ WF_vars(AdminTestResolve("s1") \/ AdminTestReject("s1"))

(***************************************************************************)
(* Properties of the placeholder extractor.                                *)
(***************************************************************************)
\* The placeholder names of a body in the order they occur, repeats
\* included.
Occurrences(content) == MapSlice(ScanFrom(content, 1))

\* C1: for every template body, extraction returns each distinct placeholder
\* name exactly once (names compared as exact strings, so "a" and "A" are
\* two names) and in the order of each name's first occurrence in the body;
\* "{A}{a}{A}" gives ["A", "a"].
C1_ExtractDistinctInFirstOccurrenceOrder ==
  (ext.by # "none" /\ ext.content \notin {NullBody, UndefinedBody}) =>
    LET occ == Occurrences(ext.content)
        r == ext.result
        First(n) == CHOOSE k \in 1..Len(occ) :
                      occ[k] = n /\ \A m \in 1..(k - 1) : occ[m] # n
    IN /\ \A i, j \in 1..Len(r) : i # j => r[i] # r[j]
       /\ Range(r) = Range(occ)
       /\ \A i, j \in 1..Len(r) : i < j => First(r[i]) < First(r[j])
       /\ ext.content = <<"{", "A", "}", "{", "a", "}", "{", "A", "}">>
            => r = << <<"A">>, <<"a">> >>

\* C1 witness: "{A}{a}{A}" was extracted to ["A", "a"].
C1_Witness ==
  /\ ext.by = "admin"
  /\ ext.content = <<"{", "A", "}", "{", "a", "}", "{", "A", "}">>
  /\ ext.result = << <<"A">>, <<"a">> >>

(***************************************************************************)
(* Properties of the generate view.                                        *)
(***************************************************************************)
\* A step in which a generate request was sent.
GenerateSent ==
  /\ Len(net') = Len(net) + 1
  /\ net'[Len(net')].fn = "generateDocument"

\* A step of the handler generateDocument up to its await or early return.
GenerateCalled == GenClickGenerate \/ GenCallGenerateDocument

\* A template is selected, no generation is in flight and every placeholder
\* of the selected template has a value that is neither absent nor "".
GenerationPermitted ==
  /\ gen.selectedTemplate # Null
  /\ GenerateInFlight = {}
  /\ \A p \in Range(Occurrences(gen.selectedTemplate.template_content)) :
       \E k \in 1..Len(gen.formData) :
         gen.formData[k].key = p /\ gen.formData[k].value # ""

\* C2: generation is permitted (the Generate button is enabled, and
\* generateDocument sends a request) if and only if a template is selected,
\* no generation is in flight and every placeholder extracted from the
\* selected template has a value that is neither absent nor the empty
\* string; a template without placeholders is generatable at once.
C2_GenerationPermittedIffComplete ==
  /\ [](GenerateButtonEnabled(gen) <=> GenerationPermitted)
  /\ [][/\ GenerateCalled => (GenerateSent <=> GenerationPermitted)
        /\ GenerateSent => GenerationPermitted]_vars

\* C2 witness: the template without placeholders is selected and the button
\* is enabled though nothing was typed.
C2_Witness ==
  /\ gen.selectedTemplate = TplLPO
  /\ gen.formData = <<>>
  /\ GenerateButtonEnabled(gen)

\* C3: switching the selected template clears the form values, also when
\* the new template shares placeholder names with the old one: after every
\* change of selectedTemplateId the form map is empty, the form changes
\* otherwise only by one field of the selected template at a time, and a
\* generate request carries the form as it is when sent, so its input data
\* holds only values entered since the selected template was chosen.
C3_SwitchingTemplateClearsForm ==
  [][/\ gen'.selectedTemplateId # gen.selectedTemplateId => gen'.formData = <<>>
     /\ (gen'.selectedTemplateId = gen.selectedTemplateId
         /\ gen'.formData # gen.formData) =>
          \E p \in Range(templatePlaceholders(gen.selectedTemplate)) :
            \E v \in FieldValues : gen'.formData = ObjSet(gen.formData, p, v)
     /\ GenerateSent =>
          /\ net'[Len(net')].data.template_id = gen.selectedTemplateId
          /\ net'[Len(net')].data.input_data = JSONStringify(gen.formData)]_vars

\* C3 witness: a value was entered for "a" under the first template and
\* sent; the second template, which also has "a", is now selected and its
\* form is empty.
C3_Witness ==
  /\ gen.selectedTemplate = TplInvoice
  /\ gen.formData = <<>>
  /\ \E k \in GenerateInFlight :
       /\ net[k].data.template_id = "t1"
       /\ ObjGet(net[k].data.input_data.json, <<"a">>) = "x"

\* Some placeholder of the selected template is missing or empty.
SomePlaceholderUnfilled ==
  /\ gen.selectedTemplate # Null
  /\ \E p \in Range(Occurrences(gen.selectedTemplate.template_content)) :
       ObjGet(gen.formData, p) \in {Undefined, ""}

\* C4: calling generateDocument while a placeholder of the selected template
\* is missing or empty yields an error message, sends no generate request,
\* leaves the loading flag false and produces no new generated document.
C4_IncompleteFormIsRejected ==
  [][(GenerateCalled /\ SomePlaceholderUnfilled) =>
       /\ gen'.message # Null
       /\ gen'.message.type = "danger"
       /\ net' = net
       /\ gen'.loading = FALSE
       /\ gen'.generatedDoc = gen.generatedDoc]_vars

\* C4 witness: generateDocument refused a form whose field "A" is empty.
C4_Witness ==
  /\ gen.selectedTemplate = TplQuote
  /\ ObjGet(gen.formData, <<"a">>) = "x"
  /\ ObjGet(gen.formData, <<"A">>) = ""
  /\ gen.message =
       [type |-> "danger",
        text |-> <<"Please select a template and fill all required fields.", "">>]
  /\ admin = AdminSetup
  /\ server = ServerSetup
  /\ api = ApiIdle
  /\ net = <<>>
  /\ ~gen.loading

\* A step of a generation attempt: the handler's call, or the arrival of
\* the answer to a generate request.
GenerationStep ==
  \/ GenerateCalled
  \/ \E k \in GenerateInFlight : net' = RemoveAt(net, k)

\* C8: a generation attempt, whether it succeeds or fails, leaves the
\* client's template list, the selected template and the entered form
\* values unchanged, and issues no request other than the one generate
\* request.
C8_GenerationLeavesTemplatesAndForm ==
  [][GenerationStep =>
       /\ gen'.templates = gen.templates
       /\ gen'.selectedTemplateId = gen.selectedTemplateId
       /\ gen'.selectedTemplate = gen.selectedTemplate
       /\ gen'.formData = gen.formData
       /\ \/ net' = net
          \/ GenerateSent /\ SubSeq(net', 1, Len(net)) = net
          \/ \E k \in GenerateInFlight : net' = RemoveAt(net, k)]_vars

\* C8 witness: a generation succeeded and the form still holds what was
\* sent.
C8_Witness ==
  /\ gen.generatedDoc # Null
  /\ gen.selectedTemplate = TplQuote
  /\ Len(gen.formData) = 2
  /\ ~gen.loading

(***************************************************************************)
(* Properties of the history view.                                         *)
(***************************************************************************)
\* No template of the loaded list has this id.
Unresolved(templateId) == \A tpl \in Range(hist.templates) : tpl.id # templateId

\* C5: a history record whose template_id resolves to no template of the
\* loaded list is still listed when no filter is set, its row shows the
\* fallbacks "Unknown Template" and "N/A", and its details show "Unknown"
\* and "N/A"; neither rendering raises an error.
C5_HistoryListableAfterTemplateDeleted ==
  /\ \A record \in Range(hist.historyRecords) :
       Unresolved(record.template_id) =>
         /\ hist.filters.docType = "" => record \in Range(filteredHistory(hist))
         /\ RowTemplateName(hist, record) = "Unknown Template"
         /\ RowDocType(hist, record) = "N/A"
  /\ (hist.selectedRecordDetails # Null
      /\ Unresolved(hist.selectedRecordDetails.template_id)) =>
       /\ ModalTemplateName(hist) = "Unknown"
       /\ ModalDocType(hist) = "N/A"

\* C5 witness: the templates are loaded, the record of the deleted template
\* is in the table and its details are open.
C5_Witness ==
  /\ HistTableShown(hist)
  /\ TplQuote \in Range(hist.templates)
  /\ HistOrphan \in Range(filteredHistory(hist))
  /\ hist.modalShown
  /\ hist.selectedRecordDetails = HistOrphan

(***************************************************************************)
(* Error reporting.                                                        *)
(***************************************************************************)
\* A step in which a request of the settings view failed.
SettRequestFailed ==
  SettFetchSettingsReject \/ SettSaveReject \/ SettTestConnectionReject

\* A step in which a request of the history view failed.
HistRequestFailed ==
  HistFetchHistoryReject \/ HistFetchTemplatesReject \/ HistViewDetailsReject

\* A step in which a request of the generate view failed.
GenRequestFailed == GenFetchTemplatesReject \/ GenGenerateReject

\* A step in which a request of the template-management view failed.
AdminRequestFailed(s) ==
  \/ AdminFetchTemplatesReject(s)
  \/ AdminCreateReject(s)
  \/ AdminSaveReject(s)
  \/ AdminDeleteReject(s)
  \/ AdminTestReject(s)

\* C6: every failure of an API operation a view started leads to a state in
\* which an error message is displayed to the user.
C6_EveryFailureShowsAnError ==
  [][/\ SettRequestFailed =>
          \/ sett'.saveMessage # Null /\ sett'.saveMessage.type = "danger"
          \/ sett'.testResult # Null /\ sett'.testResult.status = "error"
     /\ HistRequestFailed =>
          \/ ~hist'.loadingHistory /\ hist'.historyError # NullStr
          \/ hist'.modalShown /\ hist'.selectedRecordDetails = Null
             /\ ~hist'.loadingDetails /\ hist'.detailsError # NullStr
     /\ GenRequestFailed =>
          gen'.message # Null /\ gen'.message.type = "danger"
     /\ \A s \in Sessions :
          AdminRequestFailed(s) =>
            \/ admin'[s].message # Null /\ admin'[s].message.type = "danger"
            \/ admin'[s].testingTemplate # Null /\ admin'[s].testError # NullText]_vars

(***************************************************************************)
(* Properties of apiService.                                               *)
(***************************************************************************)
\* C7: no apiService function retries: each call has sent exactly one HTTP
\* request; while it waits, that request is the only one in flight; when
\* the request failed the function has thrown one Error that carries the
\* backend's detail, or the transport message when there is no detail, has
\* returned nothing and has no request in flight.
C7_OneRequestPerCallNoRetry ==
  /\ api.requests = api.calls
  /\ api.phase = "awaiting" => Cardinality(ApiInFlight) = 1
  /\ api.phase = "returned" => ApiInFlight = {} /\ api.thrown = NullStr
  /\ api.phase = "thrown" =>
       /\ ApiInFlight = {}
       /\ ~api.returned
       /\ api.thrown = IF api.error.detail # NoDetail THEN api.error.detail
                       ELSE api.error.message

\* C7 witness: a second call, of generateDocument, failed with a detail
\* from the backend.
C7_Witness ==
  /\ api.phase = "thrown"
  /\ api.fn = "generateDocument"
  /\ api.calls = 2
  /\ api.error.detail = "Template not found"

(***************************************************************************)
(* Properties of template management.                                      *)
(***************************************************************************)
\* A step in which session s sends an update-template request.
UpdateSent(s) == AdminSaveTemplate(s)

\* C9: a template's document type cannot be changed after creation: while a
\* template is in the edit form its document type is the one its list
\* entry had when editTemplate copied it, and the document_type of every
\* update-template request sent equals that type.
C9_DocumentTypeImmutable ==
  /\ [](\A s \in Sessions :
          admin[s].editingTemplate # Null =>
            /\ admin[s].editSource # Null
            /\ admin[s].editingTemplate.id = admin[s].editSource.id
            /\ admin[s].editingTemplate.document_type = admin[s].editSource.document_type)
  /\ [][\A s \in Sessions :
          UpdateSent(s) =>
            /\ net'[Len(net')].fn = "updateTemplate"
            /\ net'[Len(net')].templateId = admin[s].editSource.id
            /\ net'[Len(net')].templateData.document_type
                 = admin[s].editSource.document_type]_vars

\* C9 witness: an update request is in flight for a template whose name,
\* body and active flag were all changed in the edit form.
C9_Witness ==
  \E k \in 1..Len(net) :
    /\ net[k].fn = "updateTemplate"
    /\ net[k].templateId = "t1"
    /\ net[k].templateData.name = "Renamed"
    /\ net[k].templateData.template_content # TplQuote.template_content
    /\ ~net[k].templateData.is_active
    /\ net[k].templateData.document_type = "Quote"

\* The request addresses the history collection.
HistoryRequest(req) == ApiRoute(req.fn).path = "/history/docs"

\* C10: history is append-only from the client's side: the only apiService
\* functions that address history are the list and the get-by-id reads,
\* every request in flight that addresses history is a GET, and no step,
\* deleting a template included, changes or removes a history record.
C10_HistoryAppendOnly ==
  /\ [](/\ \A fn \in ApiFunctions :
             ApiRoute(fn).path = "/history/docs" =>
               fn \in {"getHistory", "getHistoryItem"} /\ ApiRoute(fn).method = "GET"
        /\ \A k \in 1..Len(net) :
             HistoryRequest(net[k]) => ApiRoute(net[k].fn).method = "GET")
  /\ [][/\ Len(server'.history) >= Len(server.history)
        /\ \A k \in 1..Len(server.history) : server'.history[k] = server.history[k]]_vars

\* C10 witness: a template was deleted and the history record that refers
\* to it is still there; the session has the refreshed list.
C10_Witness ==
  /\ ~ServerHas("t1")
  /\ \E record \in Range(server.history) : record.template_id = "t1"
  /\ \E s \in Sessions :
       /\ AdminListShown(admin[s])
       /\ admin[s].message # Null
       /\ admin[s].message.text = <<"Template deleted successfully.">>
       /\ \A tpl \in Range(admin[s].templates) : tpl.id # "t1"

(***************************************************************************)
(* Properties of the settings view.                                        *)
(***************************************************************************)
\* The keys of an object.
Keys(obj) == {obj[k].key : k \in 1..Len(obj)}

\* The config keys of the rows the latest successful fetch returned.
FetchedKeys == {sett.fetched[k].config_key : k \in 1..Len(sett.fetched)}

\* A step in which saveSettings sends its update request.
UpdateSettingsSent == SettSaveSettings

\* C11: settings updates never add keys: every update-settings request
\* saveSettings sends holds only keys that the most recent successful
\* settings fetch returned, and the keys the view holds are those keys.
C11_UpdateKeysWereFetched ==
  /\ [](Keys(sett.settings) = FetchedKeys)
  /\ [](\A k \in 1..Len(net) :
          net[k].fn = "updateLLMSettings" =>
            Keys(net[k].settingsData) \subseteq FetchedKeys \cup Keys(sett.settings))
  /\ [][UpdateSettingsSent =>
          /\ net'[Len(net')].fn = "updateLLMSettings"
          /\ Keys(net'[Len(net')].settingsData) \subseteq FetchedKeys]_vars

\* C11 witness: the settings were fetched with all four keys and an update
\* request is in flight.
C11_Witness ==
  /\ Cardinality(FetchedKeys) = 4
  /\ \E k \in 1..Len(net) : net[k].fn = "updateLLMSettings"

\* C20: after a successful fetch the view holds for every returned key a
\* record whose config_value is the returned one, and saveSettings sends
\* one entry for every fetched setting whose value is defined.
C20_SaveSendsEveryFetchedSetting ==
  /\ [](\A k \in 1..Len(sett.fetched) :
          StrProp(ObjGet(sett.settings, sett.fetched[k].config_key), "config_value")
            = sett.fetched[k].config_value)
  /\ [][UpdateSettingsSent =>
          \A k \in 1..Len(sett.fetched) :
            ObjGet(net'[Len(net')].settingsData, sett.fetched[k].config_key)
              = sett.fetched[k].config_value]_vars

(***************************************************************************)
(* Properties of concurrent edits.                                         *)
(***************************************************************************)
\* The session shows "Template '<name>' updated successfully."
SavedAs(s, name) ==
  /\ admin[s].message # Null
  /\ admin[s].message.type = "success"
  /\ admin[s].message.text = <<"Template '", name, "' updated successfully.">>

\* C13: concurrent edits of one template are last-write-wins: a save sends
\* the session's form copy whatever the other session did, an applied save
\* leaves the stored record equal to its payload in every field, nothing
\* else changes the store, and a save in flight for a stored template can
\* always be applied, whatever the other session saved before.
C13_LastWriteWins ==
  /\ [](\A s \in Sessions : \A i \in 1..Len(net) :
          AdminAwaits(s, i, "updateTemplate") /\ ServerHas(net[i].templateId)
            => ENABLED AdminSaveResolve(s))
  /\ [][\A s \in Sessions :
          /\ AdminSaveTemplate(s) =>
               /\ net'[Len(net')].fn = "updateTemplate"
               /\ net'[Len(net')].session = s
               /\ net'[Len(net')].templateId = admin[s].editingTemplate.id
               /\ net'[Len(net')].templateData = admin[s].editingTemplate
          /\ AdminSaveResolve(s) =>
               /\ \E i \in 1..Len(net) : AdminAwaits(s, i, "updateTemplate")
               /\ \A i \in 1..Len(net) :
                    AdminAwaits(s, i, "updateTemplate") =>
                      FindById(server'.templates, net[i].templateId) = net[i].templateData]_vars
  /\ [][(\A s \in Sessions : ~AdminSaveResolve(s)) => server' = server]_vars

\* C13 witness: both sessions saved template t1 successfully, the first
\* under the name "Renamed" and the second under its old name and switched
\* off, and the store holds the second payload: the rename is gone.
C13_Witness ==
  /\ SavedAs("s1", "Renamed")
  /\ SavedAs("s2", TplQuote.name)
  /\ FindById(server.templates, "t1").name = TplQuote.name
  /\ ~FindById(server.templates, "t1").is_active

(***************************************************************************)
(* Properties of the history filter.                                       *)
(***************************************************************************)
\* The record's template_id is the id of a loaded template of type F.
ResolvesToType(record, F) ==
  \E tpl \in Range(hist.templates) :
    tpl.id = record.template_id /\ tpl.document_type = F

\* C14: the history list is optionally filtered by resolved document type:
\* with a filter F selected the listed records are exactly, and in the
\* fetched order, the fetched records whose template_id resolves in the
\* loaded templates to a template of type F; with no filter every fetched
\* record is listed, also one whose template does not resolve.
C14_FilterByResolvedDocType ==
  /\ hist.filters.docType = "" => filteredHistory(hist) = hist.historyRecords
  /\ hist.filters.docType # "" =>
       filteredHistory(hist)
         = SelectSeq(hist.historyRecords,
                     LAMBDA record : ResolvesToType(record, hist.filters.docType))

\* C14 witness: the three records are fetched, one of a Quote, one of an
\* Invoice, one of a template that is gone; the filter is "Quote" and the
\* list holds the Quote record only.
C14_Witness ==
  /\ hist.filters.docType = "Quote"
  /\ hist.historyRecords = <<HistQuote, HistOrphan, HistInvoice>>
  /\ filteredHistory(hist) = <<HistQuote>>

(***************************************************************************)
(* Further properties of placeholder extraction.                           *)
(***************************************************************************)
\* A body was handed to an extractor and it is a text.
ExtractedText == ext.by # "none" /\ ext.content \notin {NullBody, UndefinedBody}

\* C15 as stated: the text from an opening brace that its own "}" does not
\* close (the next brace after it is another "{", or there is none)
\* contributes nothing: no extracted name reaches over an opening brace.
C15_UnclosedBraceContributesNothing ==
  ExtractedText =>
    \A n \in Range(ext.result) : \A k \in 1..Len(n) : n[k] # "{"

\* C15, amended: an opening brace with no "}" anywhere after it yields no
\* match, and the text from it onward contributes nothing: extraction gives
\* what it gives for the body cut off before that brace.  Every extracted
\* name is the non-empty text between an opening brace and the first "}"
\* after it, and so may hold the "{" of an earlier unclosed fragment.
C15_BraceWithNoCloseAfterItContributesNothing ==
  ExtractedText =>
    LET c == ext.content
    IN /\ \A i \in 1..Len(c) :
            (c[i] = "{" /\ \A j \in (i + 1)..Len(c) : c[j] # "}")
              => ext.result = extractPlaceholders(SubSeq(c, 1, i - 1))
       /\ \A n \in Range(ext.result) :
            /\ n # <<>>
            /\ \A k \in 1..Len(n) : n[k] # "}"
            /\ \E i \in 1..(Len(c) - Len(n) - 1) :
                 /\ c[i] = "{"
                 /\ SubSeq(c, i + 1, i + Len(n)) = n
                 /\ c[i + Len(n) + 1] = "}"

\* C15 witness: "{a}{A" was extracted, its last brace is never closed, and
\* the result is ["a"].
C15_Witness ==
  /\ ext.by = "admin"
  /\ ext.content = <<"{", "a", "}", "{", "A">>
  /\ ext.result = << <<"a">> >>

\* The body holds neither "{" nor "}".
Braceless(content) == \A k \in 1..Len(content) : content[k] \notin {"{", "}"}

\* C16: extraction of an empty body, of a missing body (null, undefined) or
\* of a body without braces gives the empty list, in the template-management
\* view and in the generate view, whose form then has no field.
C16_NothingToExtractGivesEmptyList ==
  (ext.by # "none" /\ (ext.content \in Falsy \/ Braceless(ext.content)))
    => /\ ext.result = <<>>
       /\ extractPlaceholders(ext.content) = <<>>
       /\ templatePlaceholders([template_content |-> ext.content]) = <<>>

\* C16 witness: the generate view computed the fields of a template whose
\* body "aA" has no braces, and there is none.
C16_Witness ==
  /\ ext.by = "generate"
  /\ ext.content = <<"a", "A">>
  /\ ext.result = <<>>

\* C17: for every body the generate view's templatePlaceholders and the
\* template-management view's extractPlaceholders return the same names in
\* the same order, and what either view computed is what the other returns.
C17_BothExtractorsAgree ==
  LET fromGenerate == templatePlaceholders([template_content |-> ext.content])
      fromAdmin == extractPlaceholders(ext.content)
  IN /\ fromGenerate = fromAdmin
     /\ ext.by = "generate" => ext.result = fromAdmin
     /\ ext.by = "admin" => ext.result = fromGenerate

\* C17 witness: the generate view extracted ["a", "A"] from "{a}{A}",
\* as extractPlaceholders does.
C17_Witness ==
  /\ ext.by = "generate"
  /\ ext.content = <<"{", "a", "}", "{", "A", "}">>
  /\ ext.result = << <<"a">>, <<"A">> >>
  /\ ext.result = extractPlaceholders(ext.content)

(***************************************************************************)
(* Further properties of the generate view.                                *)
(***************************************************************************)
\* C18: only active templates are used for generation: every generate
\* request the view has sent carries the id of a template that the fetched
\* template list holds and marks active.
C18_GenerateOnlyActiveTemplates ==
  \A k \in GenerateInFlight :
    \E tpl \in Range(gen.templates) :
      tpl.id = net[k].data.template_id /\ tpl.is_active

\* C18 witness: a generate request is in flight while the fetched list
\* holds the inactive template too.
C18_Witness ==
  /\ GenerateInFlight # {}
  /\ \E tpl \in Range(gen.templates) : ~tpl.is_active

\* A generated document with content exists.
HasContent(g) == g.generatedDoc # Null /\ g.generatedDoc.generated_content # ""

C19_WitnessNoContent ==
  /\ gen.generatedDoc # Null
  /\ gen.generatedDoc.generated_content = ""
  /\ gen.saved = Null
  /\ gen.message = [type |-> "danger", text |-> <<"No document content to download.", "">>]

(***************************************************************************)
(* Further properties of the template-management view.                     *)
(***************************************************************************)
\* C21: editing is isolated from the list until it is saved: a change made
\* in the edit form leaves the templates list as it is, cancelEdit closes
\* the form and leaves the list as it is, a failed save leaves the list
\* and the form copy as they are, and the list only ever changes when a
\* fetch of the templates is answered.
C21_EditIsolatedFromList ==
  [][\A s \in Sessions :
       /\ AdminSetEditField(s) =>
            /\ admin'[s].templates = admin[s].templates
            /\ admin'[s].editingTemplate # admin[s].editingTemplate
       /\ AdminCancelEdit(s) =>
            /\ admin'[s].templates = admin[s].templates
            /\ admin'[s].editingTemplate = Null
       /\ AdminSaveReject(s) =>
            /\ admin'[s].templates = admin[s].templates
            /\ admin'[s].editingTemplate = admin[s].editingTemplate
            /\ admin'[s].message.type = "danger"
            /\ ~admin'[s].savingTemplate
       /\ admin'[s].templates # admin[s].templates => AdminFetchTemplatesResolve(s)]_vars

\* C21 witness: a save of a renamed template failed: the form is open with
\* the new name and the list still holds the old one.
C21_Witness ==
  \E s \in Sessions :
    /\ admin[s].message # Null
    /\ admin[s].message.type = "danger"
    /\ admin[s].message.text[1] = "Failed to save template: "
    /\ AdminEditFormShown(admin[s])
    /\ admin[s].editingTemplate.name = "Renamed"
    /\ FindById(admin[s].templates, admin[s].editingTemplate.id).name # "Renamed"

\* The test requests in flight.
TestInFlight == {k \in 1..Len(net) : net[k].fn = "testTemplate"}

\* The text in the test input is not JSON: an object that is never closed.
InputNotJSON(s) == admin[s].testInputDataJson = <<"{", "a">>

\* C22: running a test with an input that is not valid JSON sends no test
\* request and ends with testError set to the invalid-JSON message,
\* testResult marked unsuccessful and testingPrompt false; and in every
\* state testError is set if and only if testResult is marked unsuccessful.
C22_InvalidJsonTestFailsLocally ==
  /\ [](\A s \in Sessions :
          admin[s].testError # NullText
            <=> (admin[s].testResult # Null /\ ~admin[s].testResult.success))
  /\ [][\A s \in Sessions :
          (AdminTestPrompt(s) /\ InputNotJSON(s)) =>
            /\ net' = net
            /\ admin'[s].testError[1] = "Invalid JSON in test input data: "
            /\ admin'[s].testResult = [success |-> FALSE, output |-> NullText]
            /\ ~admin'[s].testingPrompt]_vars

\* C22 witness: a test was run on "{a": the invalid-JSON error is shown and
\* no test request is in flight.
C22_Witness ==
  \E s \in Sessions :
    /\ InputNotJSON(s)
    /\ admin[s].testError # NullText
    /\ admin[s].testError[1] = "Invalid JSON in test input data: "
    /\ ~admin[s].testResult.success
    /\ ~admin[s].testingPrompt
    /\ TestInFlight = {}

\* C27: the edit section and the test section are never open together: at
\* most one of editingTemplate and testingTemplate is set.
C27_EditAndTestNeverOpenTogether ==
  \A s \in Sessions :
    admin[s].editingTemplate = Null \/ admin[s].testingTemplate = Null

\* C27 witness: a test was started and, with its request still in flight,
\* the user opened the edit section: the test section is closed.
C27_Witness ==
  \E s \in Sessions :
    /\ admin[s].editingTemplate # Null
    /\ admin[s].testingTemplate = Null
    /\ \E i \in TestInFlight : net[i].session = s

\* C25: the test result shown belongs to the template under test: a test
\* result or test error that appears in the test section (which is
\* rendered while testingTemplate is set) appears either without a request
\* (the input was not JSON) or as the outcome of a test request that was
\* sent for that template.
C25_TestResultOfTemplateUnderTest ==
  [][\A s \in Sessions :
       (admin[s].testResult = Null /\ admin'[s].testResult # Null
          /\ admin'[s].testingTemplate # Null) =>
            \/ net' = net
            \/ \E i \in TestInFlight :
                 /\ net' = RemoveAt(net, i)
                 /\ net[i].templateId = admin'[s].testingTemplate.id]_vars

(***************************************************************************)
(* Properties of the preview of the generate view.                         *)
(***************************************************************************)
\* C23: the document in the preview belongs to the selected template: a
\* document enters the preview only as the answer to a request that was
\* sent for the template now selected with the form values now displayed,
\* and while it stays in the preview the selected template and the form
\* values stay as they are.
C23_PreviewBelongsToSelectedTemplate ==
  [][gen'.generatedDoc # Null =>
       \/ /\ gen.generatedDoc = gen'.generatedDoc
          /\ gen'.selectedTemplate = gen.selectedTemplate
          /\ gen'.formData = gen.formData
       \/ /\ gen'.selectedTemplate # Null
          /\ \E i \in GenerateInFlight :
               /\ net' = RemoveAt(net, i)
               /\ net[i].data.template_id = gen'.selectedTemplate.id
               /\ net[i].data.input_data = JSONStringify(gen'.formData)]_vars

\* C24: the Download button is never shown without a selected template:
\* generatedDoc is null whenever selectedTemplate is null.
C24_NoPreviewWithoutSelectedTemplate ==
  gen.generatedDoc # Null => gen.selectedTemplate # Null

(***************************************************************************)
(* Properties of the history details.                                      *)
(***************************************************************************)
\* C26: the details shown are those of the record requested last: once no
\* details request is in flight and none has failed, the record in
\* selectedRecordDetails is the one viewDetails was called for last; and
\* loadingDetails is false only when no details request is in flight.
C26_DetailsOfLastRequestedRecord ==
  /\ (DetailsInFlight = {} /\ hist.detailsError = NullStr
        /\ hist.selectedRecordDetails # Null)
       => hist.selectedRecordDetails.id = hist.requestedId
  /\ DetailsInFlight # {} => hist.loadingDetails

\* C29: a record is shown with the unknown-template fallback only when its
\* template is missing: whenever the history table is displayed, a listed
\* record whose template is in the template store is shown with that
\* template's name and document type, also before the view has received a
\* template list and when it never receives one.  (States in which the view
\* holds a list that lacks the stored template are left aside.)
C29_FallbackOnlyForMissingTemplate ==
  HistTableShown(hist) =>
    \A record \in Range(filteredHistory(hist)) : \A tpl \in Range(server.templates) :
      (tpl.id = record.template_id
         /\ (hist.templates = <<>> \/ tpl \in Range(hist.templates)))
        => /\ RowTemplateName(hist, record) = tpl.name
           /\ RowDocType(hist, record) = tpl.document_type

C28_BusyFlagsEventuallyCleared ==
  /\ (gen.mounted /\ gen.loadingTemplates) ~> ~gen.loadingTemplates
  /\ gen.loading ~> ~gen.loading
  /\ (sett.mounted /\ sett.loadingSettings) ~> ~sett.loadingSettings
  /\ sett.savingSettings ~> ~sett.savingSettings
  /\ sett.testingConnection ~> ~sett.testingConnection
  /\ (hist.mounted /\ hist.loadingHistory) ~> ~hist.loadingHistory
  /\ hist.loadingDetails ~> ~hist.loadingDetails
  /\ (admin["s1"].mounted /\ admin["s1"].loadingTemplates) ~> ~admin["s1"].loadingTemplates
  /\ admin["s1"].creatingTemplate ~> ~admin["s1"].creatingTemplate
  /\ admin["s1"].savingTemplate ~> ~admin["s1"].savingTemplate
  /\ admin["s1"].testingPrompt ~> ~admin["s1"].testingPrompt

\* C28 witness: a save of a template failed and its flag is cleared.
C28_Witness ==
  /\ admin["s1"].message # Null
  /\ admin["s1"].message.type = "danger"
  /\ admin["s1"].message.text[1] = "Failed to save template: "
  /\ ~admin["s1"].savingTemplate

====
